---------------------------- MODULE Spec2Model ----------------------------
(***************************************************************************)
(* Structured Cognitive Loop (scl_core.py): one StructuredCognitiveLoop    *)
(* object executing run(task).  The decision-maker (cognition engine) and  *)
(* the tools are the environment: the engine's response is drawn from      *)
(* Proposals, a tool's outcome from ToolOutcomes.  What random.randint     *)
(* and hash() deliver to a tool is an input of each definition that        *)
(* depends on it: AllDraws holds every value the code can see,             *)
(* SampledDraws the ones the checked runs draw.                            *)
(*                                                                         *)
(* Python values.  A dict is a function from its keys (strings) to values, *)
(* d.get(k, default) is Get(d, k, default).  A value that may be None is   *)
(* <<>> for None and <<v>> for the value v (None, Some).  A parameter      *)
(* mapping, whose insertion order matters to json.dumps, is a sequence of  *)
(* <<key, value>> pairs with distinct keys; a pair whose value is an int   *)
(* is <<key, value, "int">>.  Strings are strings and are concatenated as  *)
(* the f-strings do.  Wall-clock timestamps                                *)
(* (datetime.now()) and the reasoning text are not represented.            *)
(*                                                                         *)
(* Aliasing.  LoopTrace keeps references: a Cognition trace's input_state  *)
(* IS the run's context dict and its output_state IS the engine's response *)
(* object, which control() receives and mutates.  A trace therefore stores *)
(* a reference (Ref...) where the code stores a reference to an object     *)
(* that is written later, and Snapshot dereferences it.                    *)
(***************************************************************************)
EXTENDS Integers, Sequences, FiniteSets, TLC

\* Largest iteration ceiling (max_loops) a run is constructed with.
MaxLoops == 3

VARIABLES
    pc,             \* position of run(): "start", "loop", "control", "action", "done", "crashed"
    task,           \* run()'s argument
    max_loops,      \* self.max_loops
    loop_counter,   \* self.loop_counter
    store,          \* self.memory.store
    history,        \* self.memory.history
    evidence_cache, \* self.memory.evidence_cache
    context,        \* run()'s local dict `context`
    responses,      \* the response objects the engine returned, by invocation
    dispatches,     \* ToolRegistry.execute calls made so far (the environment's view)
    report,         \* <<>> or <<the audit report run() returned>>
    last_call,      \* <<>> or <<the last call a client made on the Memory object or on
                    \* the ToolRegistry object, with what it returned>> (MemorySpec,
                    \* RegistrySpec)
    tools,          \* ToolRegistry.tools: the entry registered under each name
    invoked,        \* the tool functions a client's execute calls invoked (RegistrySpec)
    collected_weather  \* MockCognitionEngine.collected_weather (MockSpec)

vars == <<pc, task, max_loops, loop_counter, store, history, evidence_cache,
          context, responses, dispatches, report, last_call, tools, invoked,
          collected_weather>>

---------------------------------------------------------------------------
(* Python helpers *)

None == <<>>

Some(v) == <<v>>

Get(d, k, default) == IF k \in DOMAIN d THEN d[k] ELSE default

\* d.get(k) on a dict whose values are not None
GetOpt(d, k) == IF k \in DOMAIN d THEN Some(d[k]) ELSE None

DictSet(d, k, v) == [x \in DOMAIN d \cup {k} |-> IF x = k THEN v ELSE d[x]]

EmptyDict == [x \in {} |-> None]

RECURSIVE Join(_, _)
Join(strs, sep) ==
    IF strs = <<>> THEN ""
    ELSE IF Len(strs) = 1 THEN strs[1]
    ELSE strs[1] \o sep \o Join(Tail(strs), sep)

\* "".join(strs)
RECURSIVE Concat(_)
Concat(strs) ==
    IF Len(strs) = 0 THEN ""
    ELSE IF Len(strs) = 1 THEN strs[1]
    ELSE LET mid == Len(strs) \div 2 IN
         Concat(SubSeq(strs, 1, mid)) \o Concat(SubSeq(strs, mid + 1, Len(strs)))

DigitChar(d) == <<"0", "1", "2", "3", "4", "5", "6", "7", "8", "9">>[d + 1]

RECURSIVE Decimal(_)
Decimal(n) == IF n < 10 THEN DigitChar(n) ELSE Decimal(n \div 10) \o DigitChar(n % 10)

\* f"{n:03d}" for n >= 0
Fmt03(n) ==
    IF n < 10 THEN "00" \o Decimal(n)
    ELSE IF n < 100 THEN "0" \o Decimal(n)
    ELSE Decimal(n)

---------------------------------------------------------------------------
(* Parameter mappings and json.dumps(parameters, sort_keys=True) *)

\* The characters of Python identifiers, which parameter names are, in the
\* order of their code points
Ascii == "0123456789ABCDEFGHIJKLMNOPQRSTUVWXYZ_abcdefghijklmnopqrstuvwxyz"

CharRank(c) == CHOOSE i \in 1..Len(Ascii) : SubSeq(Ascii, i, i) = c

\* a < b for two str of those characters that agree before position i
RECURSIVE StrLessFrom(_, _, _)
StrLessFrom(a, b, i) ==
    IF i > Len(b) THEN FALSE
    ELSE IF i > Len(a) THEN TRUE
    ELSE IF SubSeq(a, i, i) = SubSeq(b, i, i) THEN StrLessFrom(a, b, i + 1)
    ELSE CharRank(SubSeq(a, i, i)) < CharRank(SubSeq(b, i, i))

StrLess(a, b) == StrLessFrom(a, b, 1)

RECURSIVE InsertByKey(_, _)
InsertByKey(pair, sorted) ==
    IF sorted = <<>> THEN <<pair>>
    ELSE IF StrLess(pair[1], sorted[1][1]) THEN <<pair>> \o sorted
    ELSE <<sorted[1]>> \o InsertByKey(pair, Tail(sorted))

\* mutant: json.dumps without sort_keys
SortKeysUnsorted(params) == params

RECURSIVE SortKeys(_)
SortKeys(params) ==
    IF params = <<>> THEN <<>>
    ELSE InsertByKey(params[1], SortKeys(Tail(params)))

\* A str is written here in ASCII. The one character outside ASCII that the
\* repository's texts hold, the degree sign U+00B0 of mock_cognition.py's
\* f-strings, is written as a tilde, which none of those texts holds.
DegreeSign == "~"

\* The characters outside ASCII, with the four hexadecimal digits of their code
\* point
CodePoints == [c \in {DegreeSign} |-> "00b0"]

\* The characters U+0001 to U+001F, each at the position of its code point
\* (a str holding U+0000 is not represented)
ControlChars ==
    "" \o "\t" \o "\n" \o "" \o "\f" \o "\r" \o ""

Backspace == SubSeq(ControlChars, 8, 8)

Delete == ""

HexDigits == "0123456789abcdef"

\* "\\u{:04x}".format(n) for a code point below 256
UnicodeEscape(n) ==
    "\\u00" \o SubSeq(HexDigits, (n \div 16) + 1, (n \div 16) + 1)
             \o SubSeq(HexDigits, (n % 16) + 1, (n % 16) + 1)

\* json's escapes (ensure_ascii=True): the short ones, and the code point of
\* every other character that is not a printable character of ASCII
JsonEscapes ==
    [c \in {SubSeq(ControlChars, n, n) : n \in 1..Len(ControlChars)}
              \cup {"\"", "\\", Delete} \cup DOMAIN CodePoints |->
        CASE c = "\"" -> "\\\""
          [] c = "\\" -> "\\\\"
          [] c = "\n" -> "\\n"
          [] c = "\r" -> "\\r"
          [] c = "\t" -> "\\t"
          [] c = "\f" -> "\\f"
          [] c = Backspace -> "\\b"
          [] c = Delete -> UnicodeEscape(127)
          [] c \in DOMAIN CodePoints -> "\\u" \o CodePoints[c]
          [] OTHER -> UnicodeEscape(CHOOSE n \in 1..Len(ControlChars) :
                                       SubSeq(ControlChars, n, n) = c)]

\* json's escape of one character
JsonChar(c) == IF c \in DOMAIN JsonEscapes THEN JsonEscapes[c] ELSE c

\* json.dumps of a str
JsonString(str) ==
    "\"" \o Concat([i \in 1..Len(str) |-> JsonChar(SubSeq(str, i, i))]) \o "\""

\* A parameter is <<name, value>> when its value is a str, and
\* <<name, value, "int">> when it is an int that is not negative.
IsInt(pair) == Len(pair) = 3

\* json.dumps of a parameter's value
JsonValue(pair) == IF IsInt(pair) THEN Decimal(pair[2]) ELSE JsonString(pair[2])

JsonItem(pair) == JsonString(pair[1]) \o ": " \o JsonValue(pair)

\* json.dumps of a dict whose items are taken in the order given
JsonDumps(params) ==
    "{" \o Join([i \in 1..Len(params) |-> JsonItem(params[i])], ", ") \o "}"

\* mutant: the identifier is built from the items in their insertion order
EvidenceIdUnsorted(tool_name, params) ==
    "evidence_" \o tool_name \o "_" \o JsonDumps(params)

\* f"evidence_{tool_name}_{json.dumps(parameters, sort_keys=True)}"
EvidenceId(tool_name, params) ==
    "evidence_" \o tool_name \o "_" \o JsonDumps(SortKeys(params))

\* The mapping a parameter sequence denotes (the kwargs a tool receives)
AsMapping(params) == {<<params[i][1], params[i][2]>> : i \in 1..Len(params)}

ParamKeys(params) == {params[i][1] : i \in 1..Len(params)}

---------------------------------------------------------------------------
(* ModuleType *)

ModuleRetrieval == "Retrieval"
ModuleCognition == "Cognition"
ModuleControl == "Control"
ModuleAction == "Action"

\* mutant: every loop_id carries the number 001, as retrieval's does
LoopTraceFixedId(prefix, n, module, input_state, output_state, validation_result, evidence_refs) ==
    [loop_prefix |-> prefix, loop_num |-> 1, module |-> module,
     input_state |-> input_state, output_state |-> output_state,
     validation_result |-> validation_result, evidence_refs |-> evidence_refs]

\* LoopTrace(loop_id, timestamp, module, input_state, output_state,
\*           decision=None, validation_result=None, evidence_refs=None).
\* loop_id is kept as its prefix and its number, LoopIdText renders it.
LoopTrace(prefix, n, module, input_state, output_state, validation_result, evidence_refs) ==
    [loop_prefix |-> prefix, loop_num |-> n, module |-> module,
     input_state |-> input_state, output_state |-> output_state,
     validation_result |-> validation_result, evidence_refs |-> evidence_refs]

LoopIdText(t) == t.loop_prefix \o "-" \o Fmt03(t.loop_num)

---------------------------------------------------------------------------
(* Memory *)

\* mutant: a write to a store that has entries is dropped
MemoryWriteOnce(s, key, value, evidence_id) ==
    IF DOMAIN s # {} THEN s ELSE DictSet(s, key, [value |-> value, evidence_id |-> evidence_id])

\* Memory.write: the entry's timestamp is not represented
MemoryWrite(s, key, value, evidence_id) ==
    DictSet(s, key, [value |-> value, evidence_id |-> evidence_id])

MemoryRead(s, key) == IF key \in DOMAIN s THEN Some(s[key].value) ELSE None

HasEvidence(cache, evidence_id) == evidence_id \in DOMAIN cache

\* mutant: the result is not kept
StoreEvidenceDropping(cache, evidence_id, data) == cache

StoreEvidence(cache, evidence_id, data) == DictSet(cache, evidence_id, data)

LogTrace(h, trace) == Append(h, trace)

\* mutant: loop_count is the number of stored values
GetStateSummaryCountingStore(s, cache, h) ==
    [stored_values |-> [k \in DOMAIN s |-> s[k].value],
     available_evidence |-> DOMAIN cache,
     loop_count |-> Cardinality(DOMAIN s)]

\* Memory.get_state_summary; available_evidence is kept as the set of the keys
GetStateSummary(s, cache, h) ==
    [stored_values |-> [k \in DOMAIN s |-> s[k].value],
     available_evidence |-> DOMAIN cache,
     loop_count |-> Len(h)]

---------------------------------------------------------------------------
(* MetaPrompt *)

RuleNames ==
    <<"must_cite_stored_evidence", "no_final_answer_without_control_pass",
      "single_final_action", "avoid_redundant_tool_calls", "validate_conditional_branches">>

\* self.rules: every rule is enabled
Rules == [r \in {RuleNames[i] : i \in 1..Len(RuleNames)} |-> TRUE]

\* MetaPrompt.validate: <<is_valid, message>>
Validate(cognition_output) ==
    LET citation ==
            IF Rules["must_cite_stored_evidence"]
               /\ Get(cognition_output, "evidence_refs", <<>>) = <<>>
            THEN <<"Missing evidence citations">> ELSE <<>>
        final ==
            IF Get(cognition_output, "is_final_action", FALSE)
               /\ ~Get(cognition_output, "control_validated", FALSE)
            THEN <<"Final action without Control validation">> ELSE <<>>
        issues == citation \o final
        is_valid == Len(issues) = 0
    IN  <<is_valid, IF is_valid THEN "PASS" ELSE "VIOLATIONS: " \o Join(issues, "; ")>>

---------------------------------------------------------------------------
(* ToolRegistry, with the six tools run_experiment.py registers *)

RegisteredTools ==
    {"get_weather", "send_email", "generate_image", "cancel_trip", "recommend_snacks",
     "check_umbrella"}

\* the function setup_experiment registers under each name, by its __name__
SetupFunctions ==
    [t \in RegisteredTools |-> IF t = "check_umbrella" THEN "check_umbrella_needed" ELSE t]

ToolFunctions == {SetupFunctions[t] : t \in RegisteredTools}

UpperCase == "ABCDEFGHIJKLMNOPQRSTUVWXYZ"

LowerCase == "abcdefghijklmnopqrstuvwxyz"

\* str.lower() for the letters of ASCII
LowerChar(c) ==
    IF \E i \in 1..Len(UpperCase) : SubSeq(UpperCase, i, i) = c
    THEN LET i == CHOOSE i \in 1..Len(UpperCase) : SubSeq(UpperCase, i, i) = c
         IN  SubSeq(LowerCase, i, i)
    ELSE c

Lower(str) == Concat([i \in 1..Len(str) |-> LowerChar(SubSeq(str, i, i))])

\* str.replace(old, new) for a one-character old
Replace(str, old, new) ==
    Concat([i \in 1..Len(str) |-> IF SubSeq(str, i, i) = old THEN new ELSE SubSeq(str, i, i)])

\* mock_tools.get_weather's weather_db: temp is random.randint(lo, hi)
WeatherDb ==
    [c \in {"San Francisco", "Miami", "Atlanta"} |->
        CASE c = "San Francisco" -> [lo |-> 50, hi |-> 75, condition |-> "Partly Cloudy"]
          [] c = "Miami" -> [lo |-> 70, hi |-> 90, condition |-> "Sunny"]
          [] c = "Atlanta" -> [lo |-> 55, hi |-> 80, condition |-> "Clear"]]

\* base_data["temp"] + random.randint(-5, 5): every temperature get_weather
\* can return for a city of weather_db
Temperatures(city) ==
    {temp + d : temp \in WeatherDb[city].lo..WeatherDb[city].hi, d \in (0 - 5)..5}

\* random.randint(0, 50)
PrecipitationChances == 0..50

\* hash(body) % 10000, which varies with the process
MessageIds == 0..9999

\* What the random module and hash() can deliver to a call: the sums of the two
\* randint draws of a city's temperature, the precipitation chances and the
\* hash values. A definition that depends on them takes such a record.
AllDraws ==
    [temperature |-> [c \in DOMAIN WeatherDb |-> Temperatures(c)],
     precipitation |-> PrecipitationChances,
     message_id |-> MessageIds]

\* The checked runs draw a city's temperature among the multiples of
\* TemperatureStep from TemperatureLow to TemperatureHigh that get_weather can
\* return for it: temperatures below, at and above the base temperature of the
\* task, with which each of the three cities is the coolest of three above it
\* in some run, alone or tied with another.
TemperatureLow == 50

TemperatureHigh == 75

TemperatureStep == 5

TemperatureSamples ==
    [c \in DOMAIN WeatherDb |->
        {t \in Temperatures(c) \cap (TemperatureLow..TemperatureHigh) : t % TemperatureStep = 0}]

\* The checked runs draw a precipitation chance among the multiples of
\* PrecipitationStep: on either side of the 30 the umbrella advice turns on.
PrecipitationStep == 20

PrecipitationSamples == {p \in PrecipitationChances : p % PrecipitationStep = 0}

\* The checked runs draw a hash value among the multiples of MessageIdStep
\* other than 0.
MessageIdStep == 4242

MessageIdSamples == {m \in MessageIds \ {0} : m % MessageIdStep = 0}

\* The draws of the checked runs, a bound on those the code can see
SampledDraws ==
    [temperature |-> TemperatureSamples,
     precipitation |-> PrecipitationSamples,
     message_id |-> MessageIdSamples]

\* mock_tools.get_weather(city): the results it can return with those draws
GetWeatherResults(city, draws) ==
    IF city \in DOMAIN WeatherDb
    THEN LET api_ref == "wx-" \o Lower(Replace(city, " ", "")) \o "-001" IN
         {[city |-> city, temperature_f |-> Some(t), condition |-> WeatherDb[city].condition,
           precipitation_chance |-> p, api_ref |-> api_ref] :
             t \in Temperatures(city) \cap draws.temperature[city],
             p \in PrecipitationChances \cap draws.precipitation}
    ELSE {[city |-> city, error |-> "City not found", temperature_f |-> None]}

\* mock_tools.send_email(recipient, subject, body), hash(body) % 10000 being h
SendEmailResult(kw, h) ==
    [status |-> "sent", recipient |-> kw["recipient"], subject |-> kw["subject"],
     timestamp |-> "2024-01-15T10:30:00Z", message_id |-> "msg-" \o Decimal(h)]

\* mock_tools.generate_image(description)
GenerateImageResult(kw) ==
    [status |-> "generated", description |-> kw["description"],
     image_url |-> "https://placeholder.com/weather/"
                      \o Replace(kw["description"], " ", "_") \o ".jpg",
     format |-> "JPEG", size |-> "1024x768"]

\* mock_tools.cancel_trip(reason)
CancelTripResult(kw) ==
    [status |-> "cancelled", reason |-> kw["reason"], refund_initiated |-> TRUE]

\* mock_tools.recommend_snacks's snack_lists
SnackLists ==
    [p \in {"general", "sweet", "savory"} |->
        CASE p = "general" ->
                <<"Honey Butter Chips", "Choco Pie", "Pepero Sticks", "Shin Ramyun Cup",
                  "Market O Brownies">>
          [] p = "sweet" ->
                <<"Choco Pie", "Market O Brownies", "Custard Cake", "Pepero Almond",
                  "Crown Sando">>
          [] p = "savory" ->
                <<"Honey Butter Chips", "Shin Ramyun Cup", "Squid Peanut Snack",
                  "Turtle Chips", "Seaweed Snack">>]

\* mock_tools.recommend_snacks(preferences)
RecommendSnacksResult(kw) ==
    LET snacks == Get(SnackLists, kw["preferences"], SnackLists["general"]) IN
    [status |-> "recommended", preference |-> kw["preferences"], snacks |-> snacks,
     total_items |-> Len(snacks)]

\* mock_tools.check_umbrella_needed(city, precipitation_chance), the chance an
\* integer
CheckUmbrellaResult(kw) ==
    LET chance == kw["precipitation_chance"]
        distance == IF chance >= 30 THEN chance - 30 ELSE 30 - chance
    IN  [city |-> kw["city"], precipitation_chance |-> chance,
         recommendation |-> IF chance > 30 THEN "Bring umbrella" ELSE "No umbrella needed",
         confidence |-> IF distance > 20 THEN "high" ELSE "medium"]

Kwargs(params) == [k \in ParamKeys(params) |-> (CHOOSE pr \in AsMapping(params) : pr[1] = k)[2]]

Returned(v) == [kind |-> "return", value |-> v]

Raised(msg) == [kind |-> "raise", error |-> msg]

\* the parameters of each function's signature, in their order
Signature ==
    [f \in ToolFunctions |->
        CASE f = "get_weather" -> <<"city">>
          [] f = "send_email" -> <<"recipient", "subject", "body">>
          [] f = "generate_image" -> <<"description">>
          [] f = "cancel_trip" -> <<"reason">>
          [] f = "recommend_snacks" -> <<"preferences">>
          [] f = "check_umbrella_needed" -> <<"city", "precipitation_chance">>]

\* the parameters that have a default, with it
Defaults ==
    [f \in ToolFunctions |->
        IF f = "recommend_snacks" THEN << <<"preferences", "general">> >> ELSE <<>>]

\* the names of a TypeError's message: 'a' / 'a' and 'b' / 'a', 'b', and 'c'
QuotedNames(names) ==
    LET quoted == [i \in 1..Len(names) |-> "'" \o names[i] \o "'"] IN
    IF Len(names) = 1 THEN quoted[1]
    ELSE IF Len(names) = 2 THEN quoted[1] \o " and " \o quoted[2]
    ELSE Join(SubSeq(quoted, 1, Len(names) - 1), ", ") \o ", and " \o quoted[Len(names)]

\* str(e) of the TypeError func(**kwargs) raises when the keywords do not fit
\* the signature: the first keyword the function does not have, or else the
\* parameters without a default that are not given; None when they fit
CallError(func, params) ==
    LET given == [i \in 1..Len(params) |-> params[i][1]]
        has == {Signature[func][i] : i \in 1..Len(Signature[func])}
        unexpected == SelectSeq(given, LAMBDA k : k \notin has)
        missing == SelectSeq(Signature[func],
                             LAMBDA k : k \notin ParamKeys(params)
                                        /\ k \notin ParamKeys(Defaults[func]))
    IN  IF unexpected # <<>>
        THEN Some(func \o "() got an unexpected keyword argument '" \o unexpected[1] \o "'")
        ELSE IF missing # <<>>
        THEN Some(func \o "() missing " \o Decimal(Len(missing))
                     \o " required positional argument"
                     \o (IF Len(missing) = 1 THEN "" ELSE "s") \o ": " \o QuotedNames(missing))
        ELSE None

\* the names of the parameters whose value is an int
IntKeys(params) == {params[i][1] : i \in {i \in 1..Len(params) : IsInt(params[i])}}

\* str(e) of the exception a function's body raises on arguments of another
\* type than its annotations name: precipitation_chance > 30 with a str,
\* body[:200] and description.replace with an int
BodyError(func, params) ==
    IF func = "check_umbrella_needed" /\ "precipitation_chance" \notin IntKeys(params)
    THEN Some("'>' not supported between instances of 'str' and 'int'")
    ELSE IF func = "send_email" /\ "body" \in IntKeys(params)
    THEN Some("'int' object is not subscriptable")
    ELSE IF func = "generate_image" /\ "description" \in IntKeys(params)
    THEN Some("'int' object has no attribute 'replace'")
    ELSE None

\* func(**kwargs) for a function of mock_tools: the outcomes the call can have
\* with those draws. A call whose keywords do not fit the signature raises
\* TypeError.
ToolOutcomes(func, params, draws) ==
    LET given == Kwargs(params)
        defaults == Kwargs(Defaults[func])
        kw == [k \in DOMAIN given \cup DOMAIN defaults |->
                  IF k \in DOMAIN given THEN given[k] ELSE defaults[k]]
    IN
    IF CallError(func, params) # None THEN {Raised(CallError(func, params)[1])}
    ELSE IF BodyError(func, params) # None THEN {Raised(BodyError(func, params)[1])}
    ELSE CASE func = "get_weather" ->
                 IF "city" \in IntKeys(params)
                 THEN {Returned([city |-> kw["city"], error |-> "City not found",
                                 temperature_f |-> None])}
                 ELSE {Returned(r) : r \in GetWeatherResults(kw["city"], draws)}
           [] func = "send_email" ->
                 {Returned(SendEmailResult(kw, h)) : h \in MessageIds \cap draws.message_id}
           [] func = "generate_image" -> {Returned(GenerateImageResult(kw))}
           [] func = "cancel_trip" -> {Returned(CancelTripResult(kw))}
           [] func = "recommend_snacks" ->
                 IF "preferences" \in IntKeys(params)
                 THEN {Returned([status |-> "recommended", preference |-> kw["preferences"],
                                 snacks |-> SnackLists["general"],
                                 total_items |-> Len(SnackLists["general"])])}
                 ELSE {Returned(RecommendSnacksResult(kw))}
           [] func = "check_umbrella_needed" -> {Returned(CheckUmbrellaResult(kw))}

\* the descriptions run_experiment.setup_experiment registers the tools with
Descriptions ==
    [t \in RegisteredTools |->
        CASE t = "get_weather" ->
                "Get current weather for a city (temperature, condition, precipitation)"
          [] t = "send_email" -> "Send email notification with subject and body"
          [] t = "generate_image" -> "Generate weather visualization image from description"
          [] t = "cancel_trip" -> "Cancel travel plans with specified reason"
          [] t = "recommend_snacks" -> "Get convenience store snack recommendations"
          [] t = "check_umbrella" -> "Determine if umbrella is needed based on precipitation"]

\* mutant: a name that is registered keeps its entry
RegisterKeepFirst(registry, name, func, description) ==
    IF name \in DOMAIN registry THEN registry
    ELSE DictSet(registry, name, [function |-> func, description |-> description, name |-> name])

\* ToolRegistry.register; a function is named by its __name__
Register(registry, name, func, description) ==
    DictSet(registry, name, [function |-> func, description |-> description, name |-> name])

\* the registry setup_experiment builds
SetupTools ==
    [t \in RegisteredTools |-> Register(EmptyDict, t, SetupFunctions[t], Descriptions[t])[t]]

\* The call execute(tool_name, **kwargs) of the bound method: str(e) of the
\* TypeError when a keyword is named like one of execute's own parameters (the
\* first such keyword), or nothing
ExecuteBinding(params) ==
    LET given == [i \in 1..Len(params) |-> params[i][1]]
        own == SelectSeq(given, LAMBDA k : k \in {"self", "tool_name"})
    IN  IF own # <<>>
        THEN Some("ToolRegistry.execute() got multiple values for argument '"
                     \o own[1] \o "'")
        ELSE None

\* ToolRegistry.execute up to the call of the function: the ValueError, or nothing
ExecuteLookup(tool_name) ==
    IF tool_name \notin DOMAIN SetupTools
    THEN Some("Tool '" \o tool_name \o "' not registered")
    ELSE None

\* self.tools.execute(tool_name, **parameters) up to the call of the function:
\* str(e) of the exception, or nothing
ExecuteError(tool_name, params) ==
    IF ExecuteBinding(params) # None THEN ExecuteBinding(params)
    ELSE ExecuteLookup(tool_name)

---------------------------------------------------------------------------
(* Retrieval *)

Tasks == {"plan a trip"}

RetrievalPlan ==
    [evidence_needed |-> <<"SF_weather", "Miami_weather", "Atlanta_weather">>,
     base_temperature |-> 55,
     conditions_parsed |-> TRUE,
     tools_required |-> <<"get_weather", "send_email", "generate_image", "cancel_trip">>]

Init ==
    /\ pc = "start"
    /\ task \in Tasks
    /\ max_loops \in 0..MaxLoops
    /\ loop_counter = 0
    /\ store = EmptyDict
    /\ history = <<>>
    /\ evidence_cache = EmptyDict
    /\ context = EmptyDict
    /\ responses = <<>>
    /\ dispatches = <<>>
    /\ report = <<>>
    /\ last_call = <<>>
    /\ tools = SetupTools
    /\ invoked = <<>>
    /\ collected_weather = <<>>

\* run() lines 365-373: retrieval(task), then the initial context
Retrieval ==
    /\ pc = "start"
    /\ store' = MemoryWrite(MemoryWrite(store, "task", task, None),
                            "retrieval_plan", RetrievalPlan, None)
    /\ history' = LogTrace(history,
            LoopTrace("R", 1, ModuleRetrieval, [val |-> [task |-> task]],
                      [val |-> RetrievalPlan], None, None))
    /\ context' = [task |-> task, retrieval_plan |-> RetrievalPlan, status |-> "in_progress"]
    /\ pc' = "loop"
    /\ UNCHANGED <<collected_weather, tools, invoked, last_call,
                   task, max_loops, loop_counter, evidence_cache, responses, dispatches, report>>

---------------------------------------------------------------------------
(* The decision-maker: the responses the engine may return *)

WeatherQuery ==
    [tool_name |-> "get_weather", parameters |-> << <<"city", "San Francisco">> >>]

\* a get_weather call without parameters: the tool raises
BadQuery == [tool_name |-> "get_weather"]

\* the body of _generate_decision's email for San Francisco at 60
EmailBody ==
    "Based on weather analysis, traveling to San Francisco. Temperature: 60" \o DegreeSign \o "F, "
        \o "Condition: Partly Cloudy. No umbrella needed."

Email ==
    [tool_name |-> "send_email",
     parameters |-> << <<"recipient", "test-scl@test.com">>,
                       <<"subject", "Travel Plan Confirmed: San Francisco">>,
                       <<"body", EmailBody>> >>]

\* the same call, its parameters inserted in another order
EmailPermuted ==
    [tool_name |-> "send_email",
     parameters |-> << <<"body", EmailBody>>,
                       <<"subject", "Travel Plan Confirmed: San Francisco">>,
                       <<"recipient", "test-scl@test.com">> >>]

Unregistered == [tool_name |-> "book_hotel", parameters |-> <<>>]

ProposedActions == {WeatherQuery, BadQuery, Email, EmailPermuted, Unregistered}

CitedRefs == <<"retrieval_plan">>

\* The responses drawn.  "proposed_action" is a dict, None, or missing from the
\* response; "control_validated" is False, missing, or True.  Rule evaluation reads
\* only the citations and the two flags, so the uncited responses are drawn for
\* one tool call, for None and for no action.
Proposals ==
    { r \in { [proposed_action |-> Some(a), evidence_refs |-> e, is_final_action |-> f,
               control_validated |-> FALSE] :
                 a \in ProposedActions, e \in {<<>>, CitedRefs}, f \in BOOLEAN } :
        r.evidence_refs # <<>> \/ r.proposed_action = Some(WeatherQuery) }
    \cup
    { [proposed_action |-> None, evidence_refs |-> e, is_final_action |-> f] :
         e \in {<<>>, CitedRefs}, f \in BOOLEAN }
    \cup
    { [evidence_refs |-> e, is_final_action |-> f, control_validated |-> TRUE] :
         e \in {<<>>, CitedRefs}, f \in BOOLEAN }

---------------------------------------------------------------------------
(* Trace snapshots *)

RefContext == [ref |-> "context"]

RefResponse(k) == [ref |-> "response", id |-> k]

Value(v) == [val |-> v]

Deref(x, ctx, resps) ==
    IF "val" \in DOMAIN x THEN x.val
    ELSE IF x.ref = "context" THEN ctx
    ELSE resps[x.id]

\* What a trace shows when it is read (asdict(trace))
Snapshot(t, ctx, resps) ==
    [t EXCEPT !.input_state = Deref(@, ctx, resps),
              !.output_state = Deref(@, ctx, resps)]

\* The trace log as it reads in a state
LogOf(h, ctx, resps) == [i \in 1..Len(h) |-> Snapshot(h[i], ctx, resps)]

Log == LogOf(history, context, responses)

---------------------------------------------------------------------------
(* _generate_audit_report *)

RECURSIVE CountFalse(_)
CountFalse(h) ==
    IF h = <<>> THEN 0
    ELSE (IF h[1].validation_result = Some(FALSE) THEN 1 ELSE 0) + CountFalse(Tail(h))

\* mutant: `not t.validation_result` for `t.validation_result is False`
PolicyViolationsNotTrue(h) ==
    Cardinality({i \in 1..Len(h) : h[i].validation_result # Some(TRUE)})

PolicyViolations(h) == CountFalse(h)

\* mutant: the summary's loop_count (the length of the log) is reported
TotalLoopsFromLog(counter, h) == Len(h)

TotalLoops(counter, h) == counter

AuditReport(s, cache, h, counter, ctx, resps) ==
    [task |-> MemoryRead(s, "task"),
     policies |-> RuleNames,
     log |-> LogOf(h, ctx, resps),
     summary |-> [total_loops |-> TotalLoops(counter, h),
                  policy_violations |-> PolicyViolations(h),
                  final_state |-> GetStateSummary(s, cache, h)]]

---------------------------------------------------------------------------
(* cognition *)

\* mutant: the ceiling is tested with <=
LoopConditionInclusive(counter, ceiling) == counter <= ceiling

\* while self.loop_counter < self.max_loops
LoopCondition(counter, ceiling) == counter < ceiling

\* mutant: a rejected iteration is not counted apart from the next one
NextCounterSkipping(counter) == counter + 2

\* self.loop_counter += 1
NextCounter(counter) == counter + 1

\* cognition(context), the engine returning `response`
Cognition ==
    /\ pc = "loop"
    /\ LoopCondition(loop_counter, max_loops)
    /\ \E response \in Proposals :
         /\ loop_counter' = NextCounter(loop_counter)
         /\ responses' = Append(responses, response)
         /\ history' = LogTrace(history,
                LoopTrace("CCAM", loop_counter', ModuleCognition, RefContext,
                          RefResponse(Len(responses')), None,
                          GetOpt(response, "evidence_refs")))
    /\ pc' = "control"
    /\ UNCHANGED <<collected_weather, tools, invoked, last_call,
                   task, max_loops, store, evidence_cache, context, dispatches, report>>

\* the while condition is false: run() returns the report
LoopExit ==
    /\ pc = "loop"
    /\ ~LoopCondition(loop_counter, max_loops)
    /\ report' = Some(AuditReport(store, evidence_cache, history, loop_counter,
                                  context, responses))
    /\ pc' = "done"
    /\ UNCHANGED <<collected_weather, tools, invoked, last_call,
                   task, max_loops, loop_counter, store, history, evidence_cache,
                   context, responses, dispatches>>

---------------------------------------------------------------------------
(* control *)

\* mutant: control() sets the flag on every proposal
MarkControlValidatedAlways(cognition_output) ==
    DictSet(cognition_output, "control_validated", TRUE)

\* mutant: control() does not set the flag
MarkControlValidatedNot(cognition_output) == cognition_output

\* if cognition_output.get("is_final_action"): cognition_output["control_validated"] = True
MarkControlValidated(cognition_output) ==
    IF Get(cognition_output, "is_final_action", FALSE)
    THEN DictSet(cognition_output, "control_validated", TRUE)
    ELSE cognition_output

RedundantMessage == "REJECTED: Redundant tool call (evidence already in Memory)"

\* mutant: a redundant proposal keeps the message of the rules it violated
CheckRedundantKeepMessage(verdict, tool_name, params, cache) ==
    IF tool_name # None /\ tool_name[1] # ""
       /\ HasEvidence(cache, "evidence_" \o tool_name[1] \o "_" \o JsonDumps(SortKeys(params)))
    THEN <<FALSE, IF verdict[1] THEN "REJECTED: Redundant tool call (evidence already in Memory)" ELSE verdict[2]>>
    ELSE verdict

\* mutant: the evidence cache is not consulted
CheckRedundantNever(verdict, tool_name, params, cache) == verdict

\* the redundancy check, applied to validate's <<is_valid, message>>
CheckRedundant(verdict, tool_name, params, cache) ==
    IF tool_name # None /\ tool_name[1] # ""
       /\ HasEvidence(cache, EvidenceId(tool_name[1], params))
    THEN <<FALSE, RedundantMessage>>
    ELSE verdict

\* control(cognition_output): <<the response object after it, "raise" or <<is_valid, message>>>>
ControlResult(cognition_output, cache) ==
    LET marked == MarkControlValidated(cognition_output)
        verdict == Validate(marked)
        proposed_action == Get(marked, "proposed_action", Some(EmptyDict))
    IN  IF proposed_action = None
        THEN [output |-> marked, raised |-> TRUE, verdict |-> verdict]
        ELSE [output |-> marked, raised |-> FALSE,
              verdict |-> CheckRedundant(verdict,
                                         GetOpt(proposed_action[1], "tool_name"),
                                         Get(proposed_action[1], "parameters", <<>>),
                                         cache)]

\* mutant: the rejection branch is missing
AfterControlAlways(is_valid) == "action"

\* where run() goes after control(): lines 382-388
AfterControl(is_valid) == IF ~is_valid THEN "loop" ELSE "action"

\* mutant: a rejection is also written to the working memory
ControlStoring ==
    /\ pc = "control"
    /\ LET r == ControlResult(responses[Len(responses)], evidence_cache) IN
         /\ responses' = [responses EXCEPT ![Len(responses)] = r.output]
         /\ IF r.raised
            THEN /\ pc' = "crashed"
                 /\ UNCHANGED <<history, context, store>>
            ELSE /\ history' = LogTrace(history,
                        LoopTrace("CTL", loop_counter, ModuleControl,
                                  RefResponse(Len(responses)),
                                  Value([validation |-> r.verdict[1], message |-> r.verdict[2]]),
                                  Some(r.verdict[1]), None))
                 /\ pc' = AfterControl(r.verdict[1])
                 /\ context' = IF ~r.verdict[1]
                               THEN DictSet(context, "last_rejection", r.verdict[2])
                               ELSE context
                 /\ store' = IF ~r.verdict[1]
                             THEN MemoryWrite(store, "last_rejection", r.verdict[2], None)
                             ELSE store
    /\ UNCHANGED <<collected_weather, tools, invoked, last_call,
                   task, max_loops, loop_counter, evidence_cache, dispatches, report>>

\* mutant: run() does not put the rejection message in the context
ControlSilent ==
    /\ pc = "control"
    /\ LET r == ControlResult(responses[Len(responses)], evidence_cache) IN
         /\ responses' = [responses EXCEPT ![Len(responses)] = r.output]
         /\ IF r.raised
            THEN /\ pc' = "crashed"
                 /\ UNCHANGED <<history, context>>
            ELSE /\ history' = LogTrace(history,
                        LoopTrace("CTL", loop_counter, ModuleControl,
                                  RefResponse(Len(responses)),
                                  Value([validation |-> r.verdict[1], message |-> r.verdict[2]]),
                                  Some(r.verdict[1]), None))
                 /\ pc' = AfterControl(r.verdict[1])
                 /\ context' = context
    /\ UNCHANGED <<collected_weather, tools, invoked, last_call,
                   task, max_loops, loop_counter, store, evidence_cache, dispatches, report>>

\* control(cognition_output) and run()'s branch on its result.
\* None.get("tool_name") raises AttributeError, which run() does not catch.
Control ==
    /\ pc = "control"
    /\ LET r == ControlResult(responses[Len(responses)], evidence_cache) IN
         /\ responses' = [responses EXCEPT ![Len(responses)] = r.output]
         /\ IF r.raised
            THEN /\ pc' = "crashed"
                 /\ UNCHANGED <<history, context>>
            ELSE /\ history' = LogTrace(history,
                        LoopTrace("CTL", loop_counter, ModuleControl,
                                  RefResponse(Len(responses)),
                                  Value([validation |-> r.verdict[1], message |-> r.verdict[2]]),
                                  Some(r.verdict[1]), None))
                 /\ pc' = AfterControl(r.verdict[1])
                 /\ context' = IF ~r.verdict[1]
                               THEN DictSet(context, "last_rejection", r.verdict[2])
                               ELSE context
    /\ UNCHANGED <<collected_weather, tools, invoked, last_call,
                   task, max_loops, loop_counter, store, evidence_cache, dispatches, report>>

---------------------------------------------------------------------------
(* action *)

\* mutant: the exception's text is returned as it is
ErrorResultUnwrapped(msg) == [status |-> "error", message |-> msg]

\* the except branch of action(): lines 352-355
ErrorResult(msg) == [status |-> "error", message |-> "Action execution failed: " \o msg]

NoActionResult == [status |-> "no_action", result |-> None]

Dispatch(n, tool_name, params, outcome) ==
    [loop |-> n, tool_name |-> tool_name, parameters |-> params, outcome |-> outcome]

\* mutant: the error result of a tool that raised is stored as evidence
ActionResultCaching(cognition_output, o, cache, h, calls, counter) ==
    LET proposed_action == Get(cognition_output, "proposed_action", Some(EmptyDict))[1]
        tool_name == GetOpt(proposed_action, "tool_name")
        params == Get(proposed_action, "parameters", <<>>)
    IN  IF tool_name = None \/ tool_name[1] = ""
        THEN [result |-> NoActionResult, cache |-> cache, history |-> h, calls |-> calls]
        ELSE IF ExecuteBinding(params) # None
        THEN [result |-> ErrorResult(ExecuteBinding(params)[1]), cache |-> cache,
              history |-> h,
              calls |-> Append(calls, Dispatch(counter, tool_name[1], params, "not_bound"))]
        ELSE IF ExecuteLookup(tool_name[1]) # None
        THEN [result |-> ErrorResult(ExecuteLookup(tool_name[1])[1]), cache |-> cache,
              history |-> h,
              calls |-> Append(calls, Dispatch(counter, tool_name[1], params, "not_registered"))]
        ELSE LET evidence_id == EvidenceId(tool_name[1], params)
                 result == IF o.kind = "raise" THEN ErrorResult(o.error) ELSE o.value
             IN [result |-> result,
                 cache |-> StoreEvidence(cache, evidence_id, result),
                 history |-> LogTrace(h,
                    LoopTrace("ACT", counter, ModuleAction, Value(proposed_action),
                              Value([result |-> result, evidence_id |-> evidence_id]),
                              None, None)),
                 calls |-> Append(calls, Dispatch(counter, tool_name[1], params,
                                   IF o.kind = "raise" THEN "raised" ELSE "returned"))]

\* action(cognition_output) with the tool's outcome `o` (used when the tool is called):
\* the result returned, and what it leaves in the store, the log and the world
ActionResult(cognition_output, o, cache, h, calls, counter) ==
    LET proposed_action == Get(cognition_output, "proposed_action", Some(EmptyDict))[1]
        tool_name == GetOpt(proposed_action, "tool_name")
        params == Get(proposed_action, "parameters", <<>>)
    IN  IF tool_name = None \/ tool_name[1] = ""
        THEN [result |-> NoActionResult, cache |-> cache, history |-> h, calls |-> calls]
        ELSE IF ExecuteBinding(params) # None
        THEN [result |-> ErrorResult(ExecuteBinding(params)[1]), cache |-> cache,
              history |-> h,
              calls |-> Append(calls, Dispatch(counter, tool_name[1], params, "not_bound"))]
        ELSE IF ExecuteLookup(tool_name[1]) # None
        THEN [result |-> ErrorResult(ExecuteLookup(tool_name[1])[1]), cache |-> cache,
              history |-> h,
              calls |-> Append(calls, Dispatch(counter, tool_name[1], params, "not_registered"))]
        ELSE IF o.kind = "raise"
        THEN [result |-> ErrorResult(o.error), cache |-> cache, history |-> h,
              calls |-> Append(calls, Dispatch(counter, tool_name[1], params, "raised"))]
        ELSE LET evidence_id == EvidenceId(tool_name[1], params) IN
             [result |-> o.value,
              cache |-> StoreEvidence(cache, evidence_id, o.value),
              history |-> LogTrace(h,
                    LoopTrace("ACT", counter, ModuleAction, Value(proposed_action),
                              Value([result |-> o.value, evidence_id |-> evidence_id]),
                              None, None)),
              calls |-> Append(calls, Dispatch(counter, tool_name[1], params, "returned"))]

\* the outcomes the proposal's tool can have with those draws; one placeholder
\* when no tool is called
OutcomesFor(cognition_output, draws) ==
    LET proposed_action == Get(cognition_output, "proposed_action", Some(EmptyDict))[1]
        tool_name == GetOpt(proposed_action, "tool_name")
        params == Get(proposed_action, "parameters", <<>>)
    IN  IF tool_name = None \/ tool_name[1] = "" \/ ExecuteError(tool_name[1], params) # None
        THEN {Raised("")}
        ELSE ToolOutcomes(SetupTools[tool_name[1]].function, params, draws)

\* mutant: run() does not leave the loop after a final action
AfterActionContinue(cognition_output) == "loop"

\* where run() goes after action(): lines 399-400
AfterAction(cognition_output) ==
    IF Get(cognition_output, "is_final_action", FALSE) THEN "done" ELSE "loop"

\* action(cognition_output), then run() lines 393-400, the tool seeing those
\* draws
Action(draws) ==
    /\ pc = "action"
    /\ LET cognition_output == responses[Len(responses)] IN
       \E o \in OutcomesFor(cognition_output, draws) :
         LET r == ActionResult(cognition_output, o, evidence_cache, history,
                               dispatches, loop_counter)
         IN  /\ evidence_cache' = r.cache
             /\ history' = r.history
             /\ dispatches' = r.calls
             /\ context' = DictSet(context, "last_action_result", r.result)
             /\ IF AfterAction(cognition_output) = "done"
                THEN /\ pc' = "done"
                     /\ report' = Some(AuditReport(store, evidence_cache', history',
                                                   loop_counter, context', responses))
                ELSE /\ pc' = "loop"
                     /\ UNCHANGED report
    /\ UNCHANGED <<collected_weather, tools, invoked, last_call,
                   task, max_loops, loop_counter, store, responses>>

Next == Retrieval \/ Cognition \/ Control \/ Action(SampledDraws) \/ LoopExit

Spec == Init /\ [][Next]_vars

---------------------------------------------------------------------------
(* The Memory object on its own: a client calls its methods in any order *)

\* Most traces the client logs.
MaxTraces == 2

MemoryKeys == {"task", "status"}

MemoryValues == {"plan a trip", "in_progress"}

EvidenceIds ==
    {EvidenceId(a.tool_name, a.parameters) : a \in {WeatherQuery, Email}}

\* Memory does not look into the data it stores: one precipitation chance
\* is enough
EvidenceData ==
    {data \in GetWeatherResults("San Francisco", SampledDraws) : data.precipitation_chance = 0}

MemoryTraces ==
    {LoopTrace("CTL", 1, ModuleControl, Value(EmptyDict),
               Value([validation |-> b, message |-> "PASS"]), Some(b), None) :
        b \in BOOLEAN}

\* a call of a method, and the value it returned (<<>> for None)
Call(op, args, returned) == [op |-> op, args |-> args, returned |-> returned]

\* Memory.get_evidence
GetEvidence(cache, evidence_id) == GetOpt(cache, evidence_id)

MemoryInit ==
    /\ pc = "memory"
    /\ task \in Tasks
    /\ max_loops = 0
    /\ loop_counter = 0
    /\ store = EmptyDict
    /\ history = <<>>
    /\ evidence_cache = EmptyDict
    /\ context = EmptyDict
    /\ responses = <<>>
    /\ dispatches = <<>>
    /\ report = <<>>
    /\ last_call = <<>>
    /\ tools = SetupTools
    /\ invoked = <<>>
    /\ collected_weather = <<>>

\* what no Memory method touches
NotMemory ==
    <<pc, task, max_loops, loop_counter, context, responses, dispatches, report, tools,
      invoked, collected_weather>>

CallWrite ==
    /\ pc = "memory"
    /\ \E key \in MemoryKeys, value \in MemoryValues,
          evidence_id \in {None} \cup {Some(e) : e \in EvidenceIds} :
         /\ store' = MemoryWrite(store, key, value, evidence_id)
         /\ last_call' = Some(Call("write", <<key, value, evidence_id>>, None))
    /\ UNCHANGED <<history, evidence_cache, NotMemory>>

CallRead ==
    /\ pc = "memory"
    /\ \E key \in MemoryKeys :
         last_call' = Some(Call("read", <<key>>, MemoryRead(store, key)))
    /\ UNCHANGED <<store, history, evidence_cache, NotMemory>>

CallHasEvidence ==
    /\ pc = "memory"
    /\ \E evidence_id \in EvidenceIds :
         last_call' = Some(Call("has_evidence", <<evidence_id>>,
                                Some(HasEvidence(evidence_cache, evidence_id))))
    /\ UNCHANGED <<store, history, evidence_cache, NotMemory>>

\* store_evidence has no return statement: it returns None
CallStoreEvidence ==
    /\ pc = "memory"
    /\ \E evidence_id \in EvidenceIds, data \in EvidenceData :
         /\ evidence_cache' = StoreEvidence(evidence_cache, evidence_id, data)
         /\ last_call' = Some(Call("store_evidence", <<evidence_id, data>>, None))
    /\ UNCHANGED <<store, history, NotMemory>>

CallGetEvidence ==
    /\ pc = "memory"
    /\ \E evidence_id \in EvidenceIds :
         last_call' = Some(Call("get_evidence", <<evidence_id>>,
                                GetEvidence(evidence_cache, evidence_id)))
    /\ UNCHANGED <<store, history, evidence_cache, NotMemory>>

CallLogTrace ==
    /\ pc = "memory"
    /\ Len(history) < MaxTraces
    /\ \E trace \in MemoryTraces :
         /\ history' = LogTrace(history, trace)
         /\ last_call' = Some(Call("log_trace", <<trace>>, None))
    /\ UNCHANGED <<store, evidence_cache, NotMemory>>

CallGetStateSummary ==
    /\ pc = "memory"
    /\ last_call' = Some(Call("get_state_summary", <<>>,
                              Some(GetStateSummary(store, evidence_cache, history))))
    /\ UNCHANGED <<store, history, evidence_cache, NotMemory>>

MemoryNext ==
    \/ CallWrite \/ CallRead \/ CallHasEvidence \/ CallStoreEvidence
    \/ CallGetEvidence \/ CallLogTrace \/ CallGetStateSummary

MemorySpec == MemoryInit /\ [][MemoryNext]_vars

---------------------------------------------------------------------------
(* The ToolRegistry object on its own: a client registers and executes *)

\* Most tool functions the client's execute calls invoke.
MaxCalls == 2

RegistryNames == {"get_weather", "cancel_trip"}

\* the functions registered, under either name
RegistryFunctions == {"get_weather", "cancel_trip"}

\* keyword arguments that fit a function's signature
FittingParams ==
    [f \in RegistryFunctions |->
        CASE f = "get_weather" -> << <<"city", "San Francisco">> >>
          [] f = "cancel_trip" -> << <<"reason", "Traveling">> >>]

\* The keyword arguments of the client's execute calls: none, or those that fit
\* one of the functions
ClientParams(registry, tool_name) == {<<>>} \cup {FittingParams[f] : f \in RegistryFunctions}

\* a function invoked, the keywords it received and how it ended
Invocation(func, params, outcome) ==
    [function |-> func, kwargs |-> Kwargs(params), outcome |-> outcome]

\* ToolRegistry.execute(tool_name, **kwargs): the function it invokes, if any,
\* and how the call ends with those draws (the function's exception is not
\* caught)
Execute(registry, tool_name, params, draws) ==
    IF ExecuteBinding(params) # None
    THEN {[invoked |-> None, outcome |-> Raised(ExecuteBinding(params)[1])]}
    ELSE IF tool_name \notin DOMAIN registry
    THEN {[invoked |-> None,
           outcome |-> Raised("Tool '" \o tool_name \o "' not registered")]}
    ELSE LET func == registry[tool_name].function IN
         {[invoked |-> Some(Invocation(func, params, o)), outcome |-> o] :
             o \in ToolOutcomes(func, params, draws)}

RegistryInit ==
    /\ pc = "registry"
    /\ task \in Tasks
    /\ max_loops = 0
    /\ loop_counter = 0
    /\ store = EmptyDict
    /\ history = <<>>
    /\ evidence_cache = EmptyDict
    /\ context = EmptyDict
    /\ responses = <<>>
    /\ dispatches = <<>>
    /\ report = <<>>
    /\ last_call = <<>>
    /\ tools = EmptyDict
    /\ invoked = <<>>
    /\ collected_weather = <<>>

\* what no ToolRegistry method touches
NotRegistry ==
    <<pc, task, max_loops, loop_counter, store, history, evidence_cache, context,
      responses, dispatches, report, collected_weather>>

\* register(name, func, description) returns None
CallRegister ==
    /\ pc = "registry"
    /\ \E name \in RegistryNames, func \in RegistryFunctions :
         /\ tools' = Register(tools, name, func, Descriptions[func])
         /\ last_call' = Some(Call("register", <<name, func>>, Returned(None)))
    /\ UNCHANGED <<invoked, NotRegistry>>

\* execute(tool_name, **params) with those draws; the call's `returned` is how
\* it ended
CallExecute(draws) ==
    /\ pc = "registry"
    /\ \E tool_name \in RegistryNames \cup {"book_hotel"} :
       \E params \in ClientParams(tools, tool_name) :
       \E e \in Execute(tools, tool_name, params, draws) :
         /\ e.invoked # None => Len(invoked) < MaxCalls
         /\ invoked' = IF e.invoked = None THEN invoked ELSE Append(invoked, e.invoked[1])
         /\ last_call' = Some(Call("execute", <<tool_name, params>>, e.outcome))
    /\ UNCHANGED <<tools, NotRegistry>>

RegistryNext == CallRegister \/ CallExecute(SampledDraws)

RegistrySpec == RegistryInit /\ [][RegistryNext]_vars

---------------------------------------------------------------------------
(* MockCognitionEngine driving run(); call_count, which nothing reads, and the *)
(* reasoning text are not represented                                         *)

\* Largest iteration ceiling of a run driven by the mock engine.
MockMaxLoops == 6

\* _generate_weather_query's city_map
CityMap ==
    [k \in {"SF_weather", "Miami_weather", "Atlanta_weather"} |->
        CASE k = "SF_weather" -> "San Francisco"
          [] k = "Miami_weather" -> "Miami"
          [] k = "Atlanta_weather" -> "Atlanta"]

CollectedCities(weather_data) == {weather_data[i].city : i \in 1..Len(weather_data)}

DecisionRefs == <<"weather_sf", "weather_miami", "weather_atlanta">>

\* _generate_weather_query(cities_needed, already_collected)
RECURSIVE GenerateWeatherQuery(_, _)
GenerateWeatherQuery(cities_needed, already_collected) ==
    IF cities_needed = <<>>
    THEN [proposed_action |-> None, evidence_refs |-> DecisionRefs, is_final_action |-> FALSE]
    ELSE LET city_name == Get(CityMap, cities_needed[1], cities_needed[1]) IN
         IF city_name \notin CollectedCities(already_collected)
         THEN [proposed_action |->
                  Some([tool_name |-> "get_weather",
                        parameters |-> << <<"city", city_name>> >>]),
               evidence_refs |-> <<"retrieval_plan">>,
               is_final_action |-> FALSE,
               control_validated |-> FALSE]
         ELSE GenerateWeatherQuery(Tail(cities_needed), already_collected)

\* mutant: a temperature equal to the base temperature counts as above it
AboveThresholdInclusive(weather_data, base_temp) ==
    SelectSeq(weather_data, LAMBDA w : w.temperature_f[1] >= base_temp)

\* [w for w in weather_data if w.get("temperature_f", 0) > base_temp]
AboveThreshold(weather_data, base_temp) ==
    SelectSeq(weather_data, LAMBDA w : w.temperature_f[1] > base_temp)

\* mutant: the first of the list is chosen
FirstRecorded(ws) == ws[1]

\* min(ws, key=lambda x: x["temperature_f"]): the first of the minimal ones
Coolest(ws) ==
    ws[CHOOSE i \in 1..Len(ws) :
          /\ \A j \in 1..Len(ws) : ws[i].temperature_f[1] <= ws[j].temperature_f[1]
          /\ \A j \in 1..(i - 1) : ws[j].temperature_f[1] > ws[i].temperature_f[1]]

Umbrella(w) ==
    IF Get(w, "precipitation_chance", 0) > 30 THEN "Bring umbrella" ELSE "No umbrella needed"

Degrees(w) == Decimal(w.temperature_f[1]) \o DegreeSign \o "F"

\* _generate_decision(weather_data, base_temp)
GenerateDecision(weather_data, base_temp) ==
    LET above_threshold == AboveThreshold(weather_data, base_temp)
        Final(tool_name, params, branch, w) ==
            [proposed_action |-> Some([tool_name |-> tool_name, parameters |-> params]),
             evidence_refs |-> DecisionRefs,
             decision_branch |-> branch,
             is_final_action |-> TRUE,
             control_validated |-> FALSE,
             destination |-> w.city,
             umbrella_needed |-> Get(w, "precipitation_chance", 0) > 30]
    IN  IF Len(weather_data) < 3
        THEN [proposed_action |-> None, evidence_refs |-> <<>>, is_final_action |-> FALSE]
        ELSE IF Len(above_threshold) = 3
        THEN LET coolest == Coolest(above_threshold) IN
             Final("generate_image",
                   << <<"description",
                        coolest.city \o " weather: " \o coolest.condition \o ", "
                            \o Degrees(coolest)>> >>,
                   "all_above_threshold", coolest)
        ELSE IF Len(above_threshold) = 2
        THEN LET cooler == Coolest(above_threshold) IN
             Final("send_email",
                   << <<"recipient", "test-scl@test.com">>,
                      <<"subject", "Travel Plan Confirmed: " \o cooler.city>>,
                      <<"body", "Based on weather analysis, traveling to " \o cooler.city
                                   \o ". Temperature: " \o Degrees(cooler) \o ", Condition: "
                                   \o cooler.condition \o ". " \o Umbrella(cooler) \o ".">> >>,
                   "two_above_threshold", cooler)
        ELSE IF Len(above_threshold) = 1
        THEN LET destination == above_threshold[1] IN
             Final("send_email",
                   << <<"recipient", "test-scl@test.com">>,
                      <<"subject", "Travel Plan: " \o destination.city>>,
                      <<"body", "Traveling to " \o destination.city \o ". Temperature: "
                                   \o Degrees(destination) \o ". " \o Umbrella(destination)
                                   \o ".">> >>,
                   "one_above_threshold", destination)
        ELSE [proposed_action |->
                 Some([tool_name |-> "cancel_trip",
                       parameters |->
                          << <<"reason",
                               "All destinations below comfortable temperature threshold">> >>]),
              evidence_refs |-> DecisionRefs,
              decision_branch |-> "all_below_threshold",
              is_final_action |-> FALSE,
              control_validated |-> FALSE]

\* __call__ lines 30-43: the weather of last_action_result is recorded once a city
Collect(collected, ctx) ==
    LET last_action_result == Get(ctx, "last_action_result", EmptyDict) IN
    IF /\ DOMAIN last_action_result # {}
       /\ "temperature_f" \in DOMAIN last_action_result
       /\ GetOpt(last_action_result, "city") \notin {None, Some("")}
       /\ last_action_result.temperature_f # None
       /\ last_action_result.city \notin CollectedCities(collected)
    THEN Append(collected, last_action_result)
    ELSE collected

\* MockCognitionEngine.__call__(prompt, context): its state after the call and
\* the response
MockCall(collected, ctx) ==
    LET after == Collect(collected, ctx)
        state_summary == Get(ctx, "retrieval_plan", EmptyDict)
        evidence_needed == Get(state_summary, "evidence_needed", <<>>)
        base_temp == Get(state_summary, "base_temperature", 55)
    IN  [collected |-> after,
         response |-> IF Len(after) < 3
                      THEN GenerateWeatherQuery(evidence_needed, after)
                      ELSE GenerateDecision(after, base_temp)]

MockInit ==
    /\ pc = "start"
    /\ task \in Tasks
    /\ max_loops \in 0..MockMaxLoops
    /\ loop_counter = 0
    /\ store = EmptyDict
    /\ history = <<>>
    /\ evidence_cache = EmptyDict
    /\ context = EmptyDict
    /\ responses = <<>>
    /\ dispatches = <<>>
    /\ report = <<>>
    /\ last_call = <<>>
    /\ tools = SetupTools
    /\ invoked = <<>>
    /\ collected_weather = <<>>

\* cognition(context) with MockCognitionEngine as the engine
MockCognition ==
    /\ pc = "loop"
    /\ LoopCondition(loop_counter, max_loops)
    /\ LET call == MockCall(collected_weather, context) IN
         /\ collected_weather' = call.collected
         /\ loop_counter' = NextCounter(loop_counter)
         /\ responses' = Append(responses, call.response)
         /\ history' = LogTrace(history,
                LoopTrace("CCAM", loop_counter', ModuleCognition, RefContext,
                          RefResponse(Len(responses')), None,
                          GetOpt(call.response, "evidence_refs")))
    /\ pc' = "control"
    /\ UNCHANGED <<tools, invoked, last_call, task, max_loops, store, evidence_cache,
                   context, dispatches, report>>

MockNext == Retrieval \/ MockCognition \/ Control \/ Action(SampledDraws) \/ LoopExit

MockSpec == MockInit /\ [][MockNext]_vars

---------------------------------------------------------------------------
(* The mock engine with another weather tool.  The tools are pluggable       *)
(* functions (spec.md section 1); here a function that is not part of the    *)
(* repository is registered as get_weather in place of                       *)
(* mock_tools.get_weather.  For a city of weather_db it returns a result of  *)
(* the same shape with any temperature of AnyTemps, so that all three        *)
(* cities can be at or below the base temperature, which                     *)
(* mock_tools.get_weather never returns for Miami.                           *)

\* The temperatures the registered weather tool returns: below, at and above
\* the base temperature.
AnyTemps == {50, 55, 60}

\* func(**kwargs) with that tool registered as get_weather
AnyWeatherOutcomes(tool_name, params) ==
    IF /\ tool_name = "get_weather"
       /\ CallError("get_weather", params) = None
       /\ Kwargs(params)["city"] \in DOMAIN WeatherDb
    THEN LET city == Kwargs(params)["city"] IN
         {Returned([city |-> city, temperature_f |-> Some(t),
                    condition |-> WeatherDb[city].condition, precipitation_chance |-> 20,
                    api_ref |-> "wx-" \o Lower(Replace(city, " ", "")) \o "-001"]) :
             t \in AnyTemps}
    ELSE ToolOutcomes(SetupTools[tool_name].function, params, SampledDraws)

\* the outcomes the proposal's tool can have; one placeholder when no tool is called
AnyWeatherOutcomesFor(cognition_output) ==
    LET proposed_action == Get(cognition_output, "proposed_action", Some(EmptyDict))[1]
        tool_name == GetOpt(proposed_action, "tool_name")
        params == Get(proposed_action, "parameters", <<>>)
    IN  IF tool_name = None \/ tool_name[1] = "" \/ ExecuteError(tool_name[1], params) # None
        THEN {Raised("")}
        ELSE AnyWeatherOutcomes(tool_name[1], params)

\* action(cognition_output), then run() lines 393-400, with that tool
AnyWeatherAction ==
    /\ pc = "action"
    /\ LET cognition_output == responses[Len(responses)] IN
       \E o \in AnyWeatherOutcomesFor(cognition_output) :
         LET r == ActionResult(cognition_output, o, evidence_cache, history,
                               dispatches, loop_counter)
         IN  /\ evidence_cache' = r.cache
             /\ history' = r.history
             /\ dispatches' = r.calls
             /\ context' = DictSet(context, "last_action_result", r.result)
             /\ IF AfterAction(cognition_output) = "done"
                THEN /\ pc' = "done"
                     /\ report' = Some(AuditReport(store, evidence_cache', history',
                                                   loop_counter, context', responses))
                ELSE /\ pc' = "loop"
                     /\ UNCHANGED report
    /\ UNCHANGED <<collected_weather, tools, invoked, last_call,
                   task, max_loops, loop_counter, store, responses>>

AnyWeatherNext == Retrieval \/ MockCognition \/ Control \/ AnyWeatherAction \/ LoopExit

AnyWeatherSpec == MockInit /\ [][AnyWeatherNext]_vars

---------------------------------------------------------------------------
(* Reading the log *)

Indices == 1..Len(history)

Stage(i) == history[i].module

Approved(i) == Stage(i) = ModuleControl /\ history[i].validation_result = Some(TRUE)

Rejected(i) == Stage(i) = ModuleControl /\ history[i].validation_result = Some(FALSE)

\* the response a Control record validated
Validated(i) == Deref(history[i].input_state, context, responses)

ProposedAction(resp) == Get(resp, "proposed_action", Some(EmptyDict))[1]

HasToolName(resp) ==
    "tool_name" \in DOMAIN ProposedAction(resp) /\ ProposedAction(resp).tool_name # ""

ParamsOf(resp) == Get(ProposedAction(resp), "parameters", <<>>)

SameCall(r1, r2) ==
    /\ HasToolName(r1) /\ HasToolName(r2)
    /\ ProposedAction(r1).tool_name = ProposedAction(r2).tool_name
    /\ AsMapping(ParamsOf(r1)) = AsMapping(ParamsOf(r2))

Terminated == pc \in {"done", "crashed"}

LastIsControl == Len(history) > 0 /\ Stage(Len(history)) = ModuleControl

---------------------------------------------------------------------------
(* Claims *)

\* C1: a tool is dispatched only for a proposal Control approved in the same
\* iteration; an Action trace and a stored evidence entry exist only after such an
\* approval; after a rejection the next stage is Cognition, with no dispatch for
\* the rejected iteration.
C1_ValidationBeforeExecution ==
    /\ \A d \in 1..Len(dispatches) :
         \E i \in Indices : Approved(i) /\ history[i].loop_num = dispatches[d].loop
    /\ \A i \in Indices :
         Stage(i) = ModuleAction =>
            /\ i > 1 /\ Approved(i - 1)
            /\ history[i - 1].loop_num = history[i].loop_num
    /\ \A i \in Indices :
         Rejected(i) =>
            /\ i < Len(history) => Stage(i + 1) = ModuleCognition
            /\ \A d \in 1..Len(dispatches) : dispatches[d].loop # history[i].loop_num
    /\ DOMAIN evidence_cache =
         {history[i].output_state.val.evidence_id : i \in {j \in Indices : Stage(j) = ModuleAction}}
    /\ pc = "action" => Approved(Len(history)) /\ history[Len(history)].loop_num = loop_counter

\* a rejection has been followed by a Cognition stage, and a tool was dispatched later
C1_Witness ==
    /\ \E i \in Indices : Rejected(i) /\ i < Len(history)
    /\ Len(dispatches) > 0

\* An upper bound on the steps run() has left: three stages for each iteration
\* the ceiling still allows, and the stages left in the current one
StepsLeft ==
    CASE pc = "start" -> 3 * max_loops + 2
      [] pc = "loop" -> 3 * (max_loops - loop_counter) + 1
      [] pc = "control" -> 3 * (max_loops - loop_counter) + 3
      [] pc = "action" -> 3 * (max_loops - loop_counter) + 2
      [] OTHER -> 0

\* The stage run() is at can be executed: the while test goes one way or the
\* other, and the tool called, when one is, returns or raises
CanStep ==
    CASE pc = "start" -> TRUE
      [] pc = "loop" -> LoopCondition(loop_counter, max_loops) => Proposals # {}
      [] pc = "control" -> responses # <<>>
      [] pc = "action" -> OutcomesFor(responses[Len(responses)], SampledDraws) # {}
      [] OTHER -> FALSE

\* C2: run() terminates after at most max_loops invocations of the engine, also
\* when every proposal is rejected: the engine is never invoked more than
\* max_loops times, a run that has not ended can take a step, and every step
\* (a rejected iteration like an approved one) lowers the bound StepsLeft >= 0.
C2_BoundedIteration ==
    /\ [](/\ Len(responses) <= max_loops
          /\ StepsLeft >= 0
          /\ ~Terminated => CanStep)
    /\ [][StepsLeft' < StepsLeft]_vars

\* every one of max_loops >= 2 proposals was rejected and run() returned
C2_Witness ==
    /\ pc = "done" /\ max_loops >= 2 /\ Len(responses) = max_loops
    /\ \A i \in Indices : Stage(i) = ModuleControl => Rejected(i)

\* C3: summary.total_loops is the number of Cognition records of the report's
\* log and is at most max_loops.
C3_TotalLoops ==
    pc = "done" =>
        /\ report # None
        /\ report[1].summary.total_loops =
             Cardinality({i \in 1..Len(report[1].log) : report[1].log[i].module = ModuleCognition})
        /\ report[1].summary.total_loops <= max_loops

\* a report of a run of at least two iterations, one of them with an Action record
C3_Witness ==
    /\ pc = "done" /\ report[1].summary.total_loops >= 2
    /\ \E i \in Indices : Stage(i) = ModuleAction

\* C4: summary.policy_violations is the number of Control records of the
\* report's log whose validation result is false.
C4_PolicyViolations ==
    pc = "done" =>
        report[1].summary.policy_violations =
            Cardinality({i \in 1..Len(report[1].log) :
                            /\ report[1].log[i].module = ModuleControl
                            /\ report[1].log[i].validation_result = Some(FALSE)})

\* a report with a rejection, an approval and an Action record
C4_Witness ==
    /\ pc = "done" /\ report[1].summary.policy_violations >= 1
    /\ \E i \in Indices : Approved(i)
    /\ \E i \in Indices : Stage(i) = ModuleAction

\* C5: the stages of the log read Retrieval (Cognition Control [Action])*: the
\* first record is the Retrieval record and the only one, a Cognition record is
\* followed by a Control record, an Action record follows a Control record, and
\* the log of a run that has ended, by returning or by an exception, does not
\* end in a Cognition record.
C5_StageOrder ==
    /\ (pc = "start") = (history = <<>>)
    /\ \A i \in Indices : (i = 1) = (Stage(i) = ModuleRetrieval)
    /\ \A i \in Indices \ {1} :
         CASE Stage(i) = ModuleCognition ->
                Stage(i - 1) \in {ModuleRetrieval, ModuleControl, ModuleAction}
           [] Stage(i) = ModuleControl -> Stage(i - 1) = ModuleCognition
           [] Stage(i) = ModuleAction -> Stage(i - 1) = ModuleControl
           [] OTHER -> FALSE
    /\ \A i \in Indices :
         Stage(i) = ModuleCognition /\ i < Len(history) => Stage(i + 1) = ModuleControl
    /\ Terminated /\ history # <<>> => Stage(Len(history)) # ModuleCognition

\* C6 as claimed: the number of a record's id is greater than that of every
\* record appended before it.
C6_StrictlyIncreasing ==
    \A i, j \in Indices : i < j => history[i].loop_num < history[j].loop_num

\* C6 amended: the number of a record's id is never less than that of a record
\* appended before it, and greater than that of every earlier record of its stage.
C6_NonDecreasing ==
    \A i, j \in Indices :
        i < j =>
            /\ history[i].loop_num <= history[j].loop_num
            /\ Stage(i) = Stage(j) => history[i].loop_num < history[j].loop_num

\* a log with two Action records
C6_Witness ==
    \E i, j \in Indices : i < j /\ Stage(i) = ModuleAction /\ Stage(j) = ModuleAction

\* C7: a record of the log reads the same in every later state and is not removed.
C7_TracesImmutable ==
    [][\A i \in Indices :
          /\ i <= Len(history')
          /\ LogOf(history', context', responses')[i] = Log[i]]_vars

\* C8 as claimed: once a call (tool name, parameters) was approved, every later
\* proposal of the same call is rejected as redundant, and no call is dispatched twice.
C8_Idempotent ==
    /\ \A i, j \in Indices :
         (i < j /\ Approved(i) /\ Stage(j) = ModuleControl
            /\ SameCall(Validated(i), Validated(j)))
         => /\ Rejected(j)
            /\ history[j].output_state.val.message = RedundantMessage
    /\ \A d, e \in 1..Len(dispatches) :
         (d < e /\ dispatches[d].tool_name = dispatches[e].tool_name)
         => AsMapping(dispatches[d].parameters) # AsMapping(dispatches[e].parameters)

Succeeded(i) ==
    \E d \in 1..Len(dispatches) :
        dispatches[d].loop = history[i].loop_num /\ dispatches[d].outcome = "returned"

\* C8 amended: once a call was approved and its tool returned, every later
\* proposal of the same call is rejected as redundant, and no call is dispatched
\* again after a dispatch of it that returned.
C8_IdempotentAfterSuccess ==
    /\ \A i, j \in Indices :
         (i < j /\ Approved(i) /\ Succeeded(i) /\ Stage(j) = ModuleControl
            /\ SameCall(Validated(i), Validated(j)))
         => /\ Rejected(j)
            /\ history[j].output_state.val.message = RedundantMessage
    /\ \A d, e \in 1..Len(dispatches) :
         (d < e /\ dispatches[d].outcome = "returned"
            /\ dispatches[d].tool_name = dispatches[e].tool_name)
         => AsMapping(dispatches[d].parameters) # AsMapping(dispatches[e].parameters)

\* a call that returned was proposed again with its parameters in another order
C8_Witness ==
    \E i, j \in Indices :
        /\ i < j /\ Approved(i) /\ Succeeded(i) /\ Stage(j) = ModuleControl
        /\ SameCall(Validated(i), Validated(j))
        /\ ParamsOf(Validated(i)) # ParamsOf(Validated(j))

\* C9: Control approves exactly when the proposal cites evidence and the evidence
\* id of its tool call, if it names a tool, is not in the evidence cache.
C9_ApprovalIff ==
    LastIsControl =>
        LET resp == Validated(Len(history)) IN
        Approved(Len(history)) =
            /\ Get(resp, "evidence_refs", <<>>) # <<>>
            /\ ~(/\ HasToolName(resp)
                 /\ EvidenceId(ProposedAction(resp).tool_name, ParamsOf(resp))
                        \in DOMAIN evidence_cache)

\* Control approved a final proposal that came with control_validated False,
\* with evidence in the cache
C9_Witness ==
    /\ LastIsControl /\ Approved(Len(history))
    /\ Validated(Len(history)).is_final_action
    /\ HasToolName(Validated(Len(history)))
    /\ DOMAIN evidence_cache # {}

\* C10: a proposal whose evidence id is in the cache is rejected with the
\* redundant-call message, whatever the rules said.
C10_RedundantMessage ==
    LastIsControl =>
        LET resp == Validated(Len(history)) IN
        (/\ HasToolName(resp)
         /\ EvidenceId(ProposedAction(resp).tool_name, ParamsOf(resp)) \in DOMAIN evidence_cache)
        => /\ Rejected(Len(history))
           /\ history[Len(history)].output_state.val.message = RedundantMessage

\* a redundant proposal that also cites no evidence was rejected
C10_Witness ==
    /\ LastIsControl
    /\ HasToolName(Validated(Len(history)))
    /\ EvidenceId(ProposedAction(Validated(Len(history))).tool_name,
                  ParamsOf(Validated(Len(history)))) \in DOMAIN evidence_cache
    /\ Validated(Len(history)).evidence_refs = <<>>

\* the proposals control() has been called on and has left (returned or raised)
Controlled == {k \in 1..Len(responses) : k < Len(responses) \/ pc # "control"}

\* C11: control() never raises: for every proposal it was called on, the one
\* with a null action descriptor included, it returned and appended a Control
\* record carrying the (approved, message) pair.
C11_ControlNeverRaises ==
    /\ pc # "crashed"
    /\ \A k \in Controlled :
         \E i \in Indices :
            /\ Stage(i) = ModuleControl /\ history[i].loop_num = k
            /\ history[i].output_state.val.validation \in BOOLEAN

\* C12: a control() call that rejects leaves the working-memory entries and the
\* evidence cache as they were; the log gains the Control record of the
\* rejection and nothing else, and no tool is dispatched.
C12_RejectionFrame ==
    [][(pc = "control" /\ pc' = "loop") =>
          /\ store' = store
          /\ evidence_cache' = evidence_cache
          /\ dispatches' = dispatches
          /\ Len(history') = Len(history) + 1
          /\ SubSeq(history', 1, Len(history)) = history
          /\ history'[Len(history')].module = ModuleControl
          /\ history'[Len(history')].validation_result = Some(FALSE)]_vars

\* a proposal was just rejected while the evidence cache held an entry
C12_Witness ==
    /\ pc = "loop" /\ LastIsControl /\ Rejected(Len(history))
    /\ DOMAIN store # {} /\ DOMAIN evidence_cache # {}

\* C13: a store_evidence call for an identifier already in the evidence cache
\* changes nothing in the cache (the value stored first stays) and returns a
\* duplicate signal, that is, something other than the None of a first store.
C13_StoreEvidenceOnce ==
    [][(/\ last_call' # None
        /\ last_call'[1].op = "store_evidence"
        /\ HasEvidence(evidence_cache, last_call'[1].args[1]))
       => /\ evidence_cache' = evidence_cache
          /\ last_call'[1].returned # None]_vars

IsFinal(resp) == Get(resp, "is_final_action", FALSE)

\* Control approved a final proposal in the current iteration
FinalApproved ==
    \E i \in Indices :
        Approved(i) /\ IsFinal(Validated(i)) /\ history[i].loop_num = loop_counter

\* C14: the loop has stopped only if a final proposal was approved and its
\* Action stage has run, or the counter has reached the ceiling (a non-final or
\* rejected proposal does not end it below the ceiling); and once a final
\* proposal is approved only its Action stage follows, after which the loop
\* has stopped.
C14_LoopStops ==
    /\ Terminated => (FinalApproved \/ loop_counter >= max_loops)
    /\ \A i \in Indices :
         Approved(i) /\ IsFinal(Validated(i)) =>
            /\ pc \in {"action", "done"}
            /\ \A j \in Indices : j > i => (j = i + 1 /\ Stage(j) = ModuleAction)
            /\ history[i].loop_num = loop_counter

\* the keys retrieval() writes
RetrievalKeys == {"task", "retrieval_plan"}

\* C15: after an approved proposal's tool returned, its result is a value of the
\* working memory (a store entry, hence one of the summary's stored values) and
\* the entry of the evidence cache under the evidence id Control computed for
\* the proposal.
C15_ResultInBoth ==
    \A i \in Indices :
        Stage(i) = ModuleAction =>
            LET result == history[i].output_state.val.result
                resp == Validated(i - 1)
                evidence_id == EvidenceId(ProposedAction(resp).tool_name, ParamsOf(resp))
            IN  /\ HasEvidence(evidence_cache, evidence_id)
                /\ evidence_cache[evidence_id] = result
                /\ \E key \in DOMAIN store \ RetrievalKeys :
                      /\ store[key].value = result
                      /\ GetStateSummary(store, evidence_cache, history).stored_values[key]
                            = result

\* the records of a stage in the iteration numbered n
RecordsOf(module, n) == {j \in Indices : Stage(j) = module /\ history[j].loop_num = n}

\* the approved proposals whose Action stage has run
Acted == {i \in Indices : Approved(i) /\ ~(i = Len(history) /\ pc = "action")}

\* C16: every stage that was executed has appended its record: each engine
\* invocation one Cognition record, each control() call one Control record, and
\* each approved proposal's Action stage exactly one Action record, also when
\* the proposal carries no action descriptor and when the tool raises.  It is
\* stated of the runs in which control() has returned every time.
C16_TraceForEveryStage ==
    pc # "crashed" =>
        /\ \A k \in 1..Len(responses) : Cardinality(RecordsOf(ModuleCognition, k)) = 1
        /\ \A k \in Controlled : Cardinality(RecordsOf(ModuleControl, k)) = 1
        /\ \A i \in Acted : Cardinality(RecordsOf(ModuleAction, history[i].loop_num)) = 1

\* the last tool dispatched raised, in the iteration numbered n
RaisedIn(n) ==
    /\ dispatches # <<>>
    /\ dispatches[Len(dispatches)].loop = n
    /\ dispatches[Len(dispatches)].outcome = "raised"

\* the result action() returns for the tool that raised last
RaisedResult ==
    LET d == dispatches[Len(dispatches)] IN
    ErrorResult(CallError(SetupTools[d.tool_name].function, d.parameters)[1])

\* C17: when the dispatched tool raises, action() returns: the result is a
\* structured value with status "error" and a message, which run() puts in the
\* context as last_action_result; the next engine invocation is handed that
\* context, untouched, and its record shows it; the Action stage leaves the
\* evidence cache as it was and dispatches the tool once.
C17_ToolRaises ==
    /\ [](pc = "loop" /\ RaisedIn(loop_counter) =>
            /\ "last_action_result" \in DOMAIN context
            /\ DOMAIN context["last_action_result"] = {"status", "message"}
            /\ context["last_action_result"].status = "error"
            /\ context["last_action_result"] = RaisedResult)
    /\ [](pc = "control" /\ RaisedIn(loop_counter - 1) =>
            /\ Stage(Len(history)) = ModuleCognition
            /\ Log[Len(history)].input_state["last_action_result"] = RaisedResult)
    /\ [](\A d, e \in 1..Len(dispatches) : dispatches[d].loop = dispatches[e].loop => d = e)
    /\ [][pc = "action" /\ RaisedIn(loop_counter)' =>
            /\ pc' \in {"loop", "done"}
            /\ evidence_cache' = evidence_cache
            /\ Len(dispatches') = Len(dispatches) + 1]_vars
    /\ [][pc = "loop" /\ pc' = "control" => context' = context]_vars

\* the engine was invoked again after a tool raised, with evidence in the cache
C17_Witness ==
    /\ pc = "control"
    /\ dispatches # <<>> /\ dispatches[Len(dispatches)].outcome = "raised"
    /\ dispatches[Len(dispatches)].loop = loop_counter - 1
    /\ DOMAIN evidence_cache # {}

\* the last tool name dispatched was not registered, in the iteration numbered n
UnregisteredIn(n) ==
    /\ dispatches # <<>>
    /\ dispatches[Len(dispatches)].loop = n
    /\ dispatches[Len(dispatches)].outcome = "not_registered"

\* what action() returns for the proposals naming the unregistered book_hotel
NotRegisteredResult ==
    [status |-> "error",
     message |-> "Action execution failed: Tool 'book_hotel' not registered"]

\* C18 as claimed: when an approved proposal names an unregistered tool, the
\* Action stage yields the structured error result and run() goes back to the
\* head of the loop for the next iteration.
C18_UnregisteredContinues ==
    [][pc = "action" /\ UnregisteredIn(loop_counter)' =>
          /\ context'["last_action_result"] = NotRegisteredResult
          /\ pc' = "loop"]_vars

\* C18 amended: when an approved proposal names an unregistered tool, the
\* Action stage yields the structured error result and changes neither the
\* evidence cache nor the log; run() does not crash: it goes back to the head of
\* the loop unless the proposal was final, and then it returns its report.
C18_UnregisteredSurfaced ==
    [][pc = "action" /\ UnregisteredIn(loop_counter)' =>
          /\ context'["last_action_result"] = NotRegisteredResult
          /\ evidence_cache' = evidence_cache /\ history' = history
          /\ IF IsFinal(responses[Len(responses)])
             THEN pc' = "done" /\ report' # None
             ELSE pc' = "loop" /\ report' = None]_vars

\* the engine was invoked again after an unregistered tool was named
C18_Witness ==
    /\ pc = "control" /\ UnregisteredIn(loop_counter - 1)
    /\ context["last_action_result"] = NotRegisteredResult

\* C19: retrieval() runs once, before any engine invocation: the engine has not
\* been invoked while run() is at its start, from then on the log has exactly
\* one Retrieval record, its first, and the working memory holds the task text
\* and the retrieval plan under their keys; the log of the report has that one
\* Retrieval record too.
C19_RetrievalOnce ==
    /\ pc = "start" => responses = <<>> /\ loop_counter = 0 /\ history = <<>>
    /\ pc # "start" =>
         /\ {i \in Indices : Stage(i) = ModuleRetrieval} = {1}
         /\ RetrievalKeys \subseteq DOMAIN store
         /\ MemoryRead(store, "task") = Some(task)
         /\ MemoryRead(store, "retrieval_plan") = Some(RetrievalPlan)
    /\ pc = "done" =>
         {i \in 1..Len(report[1].log) : report[1].log[i].module = ModuleRetrieval} = {1}

\* a run of two engine invocations has returned
C19_Witness == pc = "done" /\ Len(responses) >= 2

\* every proposal the engine has returned was non-final and rejected by Control
AllRejected ==
    /\ \A k \in 1..Len(responses) : ~IsFinal(responses[k])
    /\ Cardinality({i \in Indices : Rejected(i)}) = Len(responses)

\* C20: with a ceiling N >= 1 and an engine whose every proposal is non-final
\* and rejected, run() ends exhausted: it returns at the ceiling, no final
\* proposal was approved, the report counts N loops and N policy violations,
\* and no tool was dispatched.
C20_BudgetExhaustion ==
    (Terminated /\ max_loops >= 1 /\ AllRejected) =>
        /\ pc = "done" /\ loop_counter = max_loops
        /\ ~\E i \in Indices : Approved(i)
        /\ report[1].summary.total_loops = max_loops
        /\ report[1].summary.policy_violations = max_loops
        /\ dispatches = <<>>
        /\ ~\E i \in 1..Len(report[1].log) : report[1].log[i].module = ModuleAction
        /\ DOMAIN evidence_cache = {}

\* a run with ceiling 2 or more has returned, the engine having proposed each
\* time the uncited, non-final San Francisco query of SimplifiedCognitionEngine
C20_Witness ==
    /\ pc = "done" /\ max_loops >= 2 /\ AllRejected
    /\ \A k \in 1..Len(responses) :
         /\ Get(responses[k], "proposed_action", None) = Some(WeatherQuery)
         /\ Get(responses[k], "evidence_refs", <<>>) = <<>>

\* the message of the Control record of the iteration numbered n
MessageOf(n) ==
    history[CHOOSE i \in Indices : Stage(i) = ModuleControl /\ history[i].loop_num = n]
        .output_state.val.message

RejectedIn(n) == \E i \in Indices : Rejected(i) /\ history[i].loop_num = n

\* C21: after Control rejected a proposal, run()'s context carries the message
\* Control returned for it, and the next engine invocation, which is handed
\* that context untouched, receives it: the record of that invocation shows it.
C21_RejectionReasonInContext ==
    /\ [](pc = "loop" /\ RejectedIn(loop_counter) =>
            Get(context, "last_rejection", "") = MessageOf(loop_counter))
    /\ [](pc = "control" /\ RejectedIn(loop_counter - 1) =>
            /\ Stage(Len(history)) = ModuleCognition
            /\ Get(Log[Len(history)].input_state, "last_rejection", "")
                 = MessageOf(loop_counter - 1))
    /\ [][pc = "loop" /\ pc' = "control" => context' = context]_vars

\* the engine was invoked after a proposal was rejected as a redundant call
C21_Witness ==
    /\ pc = "control" /\ RejectedIn(loop_counter - 1)
    /\ MessageOf(loop_counter - 1) = RedundantMessage
    /\ "last_action_result" \in DOMAIN context

\* C22: the context an engine invocation is given holds a rejection reason only
\* if the iteration before it was rejected; after an approved and executed
\* iteration it holds none.
C22_RejectionReasonOnlyAfterRejection ==
    pc = "control" /\ Stage(Len(history)) = ModuleCognition =>
        ("last_rejection" \in DOMAIN Log[Len(history)].input_state
           => RejectedIn(loop_counter - 1))

\* the messages Control gives without a violation of the final-action rule
NoFinalRuleViolation ==
    {"PASS", "VIOLATIONS: Missing evidence citations", RedundantMessage}

\* C23: control() sets control_validated on a final proposal, whatever flag the
\* engine supplied, and leaves a non-final proposal as it was; no verdict
\* reports a violation of the final-action rule, for a final proposal or for a
\* non-final one.
C23_FinalityByControl ==
    /\ [](\A i \in Indices :
            Stage(i) = ModuleControl =>
               /\ history[i].output_state.val.message \in NoFinalRuleViolation
               /\ IsFinal(Validated(i)) => Get(Validated(i), "control_validated", FALSE))
    /\ [][pc = "control" =>
            LET supplied == responses[Len(responses)] IN
            /\ Len(responses') = Len(responses)
            /\ responses'[Len(responses)] =
                 IF IsFinal(supplied) THEN DictSet(supplied, "control_validated", TRUE)
                 ELSE supplied
            /\ pc' # "crashed" =>
                 history'[Len(history')].output_state.val.message \in NoFinalRuleViolation]_vars

\* Control has approved a final tool proposal, which the engine supplies with the
\* flag False, and has judged a non-final one whose flag is still False
C23_Witness ==
    /\ \E i \in Indices :
         /\ Approved(i) /\ IsFinal(Validated(i)) /\ HasToolName(Validated(i))
         /\ Validated(i).control_validated
    /\ \E i \in Indices :
         /\ Stage(i) = ModuleControl /\ ~IsFinal(Validated(i))
         /\ "control_validated" \in DOMAIN Validated(i)
         /\ ~Validated(i).control_validated

\* the insertion orders of a parameter mapping
Orders(params) ==
    {q \in [1..Len(params) -> {params[i] : i \in 1..Len(params)}] :
        \A i, j \in 1..Len(params) : q[i] = q[j] => i = j}

\* C24: the evidence id depends on the tool name and on the parameter mapping
\* only, not on the order its items were inserted in: every insertion order of
\* a call's parameters gives the id of the call, two proposals of the same call
\* get the same id, and the id action() stores a result under is the id
\* control() looks up for that proposal.  What does not depend on the run is
\* stated of its first state.
C24_EvidenceIdOrderIndependent ==
    /\ pc = "start" =>
         \A a \in {WeatherQuery, Email, EmailPermuted, Unregistered} :
            \A q \in Orders(a.parameters) :
               /\ AsMapping(q) = AsMapping(a.parameters)
               /\ EvidenceId(a.tool_name, q) = EvidenceId(a.tool_name, a.parameters)
    /\ \A i, j \in Indices :
         (Stage(i) = ModuleControl /\ Stage(j) = ModuleControl
            /\ SameCall(Validated(i), Validated(j)))
         => EvidenceId(ProposedAction(Validated(i)).tool_name, ParamsOf(Validated(i)))
              = EvidenceId(ProposedAction(Validated(j)).tool_name, ParamsOf(Validated(j)))
    /\ \A i \in Indices :
         Stage(i) = ModuleAction =>
            /\ history[i].output_state.val.evidence_id =
                 EvidenceId(ProposedAction(Validated(i - 1)).tool_name,
                            ParamsOf(Validated(i - 1)))
            /\ HasEvidence(evidence_cache, history[i].output_state.val.evidence_id)
    /\ pc = "start" =>
         EvidenceId(Email.tool_name, Email.parameters) =
         "evidence_send_email_{\"body\": \"Based on weather analysis, "
           \o "traveling to San Francisco. Temperature: 60\\u00b0F, Conditi"
           \o "on: Partly Cloudy. No umbrella needed.\", \"recipient\": \"t"
           \o "est-scl@test.com\", \"subject\": \"Travel Plan Confirmed: Sa"
           \o "n Francisco\"}"

\* the same call was judged twice, its parameters inserted in two orders, and
\* the result of the first is in the cache
C24_Witness ==
    \E i, j \in Indices :
        /\ i < j /\ Approved(i) /\ Stage(j) = ModuleControl
        /\ SameCall(Validated(i), Validated(j))
        /\ ParamsOf(Validated(i)) # ParamsOf(Validated(j))
        /\ Stage(i + 1) = ModuleAction
        /\ history[i + 1].output_state.val.evidence_id \in DOMAIN evidence_cache

\* what get_state_summary() returns when called in the current state
Summary == GetStateSummary(store, evidence_cache, history)

\* the call being made in a step is `op`
Calling(op) == last_call' # None /\ last_call'[1].op = op

\* C25: get_state_summary() is never stale.  The summary is empty before any
\* call; write(key, value) makes value the stored value of key and changes no
\* other; store_evidence(id) adds id to the available evidence; log_trace adds
\* one to the count; no other call changes the summary; and get_state_summary()
\* returns the summary of the state it is called in and changes nothing.
C25_SummaryNeverStale ==
    /\ [](last_call = None =>
            Summary = [stored_values |-> EmptyDict, available_evidence |-> {},
                       loop_count |-> 0])
    /\ [][Calling("write") =>
            LET key == last_call'[1].args[1] IN
            /\ DOMAIN Summary'.stored_values = DOMAIN Summary.stored_values \cup {key}
            /\ Summary'.stored_values[key] = last_call'[1].args[2]
            /\ \A k \in DOMAIN Summary.stored_values \ {key} :
                  Summary'.stored_values[k] = Summary.stored_values[k]
            /\ Summary'.available_evidence = Summary.available_evidence
            /\ Summary'.loop_count = Summary.loop_count]_vars
    /\ [][Calling("store_evidence") =>
            /\ Summary'.available_evidence =
                 Summary.available_evidence \cup {last_call'[1].args[1]}
            /\ Summary'.stored_values = Summary.stored_values
            /\ Summary'.loop_count = Summary.loop_count]_vars
    /\ [][Calling("log_trace") =>
            /\ Summary'.loop_count = Summary.loop_count + 1
            /\ Summary'.stored_values = Summary.stored_values
            /\ Summary'.available_evidence = Summary.available_evidence]_vars
    /\ [][Calling("read") \/ Calling("has_evidence") \/ Calling("get_evidence")
            => Summary' = Summary]_vars
    /\ [][Calling("get_state_summary") =>
            /\ last_call'[1].returned = Some(Summary)
            /\ <<store, evidence_cache, history>>' = <<store, evidence_cache, history>>]_vars

\* get_state_summary() was called after both keys were written, both evidence
\* ids stored and two traces logged
C25_Witness ==
    /\ last_call # None /\ last_call[1].op = "get_state_summary"
    /\ last_call[1].returned[1].loop_count = 2
    /\ last_call[1].returned[1].available_evidence = EvidenceIds
    /\ DOMAIN last_call[1].returned[1].stored_values = MemoryKeys

\* C26: execute of a name that is not registered raises the not-registered
\* error and invokes no function; execute of a registered name invokes, once
\* and with the keywords given, the function registered last under the name,
\* and ends as that function ended, returning its result as it is; register
\* makes its function the one registered under the name, replacing an earlier
\* one, and touches no other name.
C26_RegistryDispatch ==
    /\ [][Calling("execute") /\ last_call'[1].args[1] \notin DOMAIN tools =>
            /\ last_call'[1].returned =
                 Raised("Tool '" \o last_call'[1].args[1] \o "' not registered")
            /\ invoked' = invoked
            /\ tools' = tools]_vars
    /\ [][Calling("execute") /\ last_call'[1].args[1] \in DOMAIN tools =>
            /\ Len(invoked') = Len(invoked) + 1
            /\ SubSeq(invoked', 1, Len(invoked)) = invoked
            /\ invoked'[Len(invoked')].function = tools[last_call'[1].args[1]].function
            /\ invoked'[Len(invoked')].kwargs = Kwargs(last_call'[1].args[2])
            /\ last_call'[1].returned = invoked'[Len(invoked')].outcome
            /\ tools' = tools]_vars
    /\ [][Calling("register") =>
            /\ DOMAIN tools' = DOMAIN tools \cup {last_call'[1].args[1]}
            /\ tools'[last_call'[1].args[1]].function = last_call'[1].args[2]
            /\ \A n \in DOMAIN tools \ {last_call'[1].args[1]} : tools'[n] = tools[n]
            /\ invoked' = invoked]_vars

\* get_weather, the only name ever registered, was executed twice: the first
\* call invoked get_weather, the second, after a new registration, cancel_trip,
\* whose result it returned
C26_Witness ==
    /\ DOMAIN tools = {"get_weather"}
    /\ Len(invoked) = 2
    /\ invoked[1].function = "get_weather" /\ invoked[2].function = "cancel_trip"
    /\ last_call # None /\ last_call[1].op = "execute"
    /\ invoked[2].outcome.kind = "return"
    /\ last_call[1].returned = invoked[2].outcome
    /\ last_call[1].returned.value.status = "cancelled"

\* The recorded cities whose temperature is strictly above the retrieval plan's
\* base temperature, as positions of collected_weather.
RecordedAbove ==
    {i \in 1..Len(collected_weather) :
        collected_weather[i].temperature_f[1] > RetrievalPlan.base_temperature}

\* The recorded cities above the base temperature that none of the others above
\* it is cooler than.
CoolestRecordedAbove ==
    {collected_weather[i].city : i \in
        {i \in RecordedAbove :
            \A j \in RecordedAbove : collected_weather[i].temperature_f[1]
                                        <= collected_weather[j].temperature_f[1]}}

\* The response the mock engine has just given.
Proposal == responses[Len(responses)]

\* The engine has recorded that temperature for the city.
Recorded(city, t) ==
    \E i \in 1..Len(collected_weather) :
        collected_weather[i].city = city /\ collected_weather[i].temperature_f = Some(t)

\* C27: when the mock engine answers with the weather of the three cities
\* recorded and exactly two temperatures strictly above the base temperature,
\* the proposal is final, its tool is send_email, and its destination, which
\* the subject of the email names, is the cooler of the two cities above the
\* base temperature.
C27_TwoAboveSendsEmail ==
    (pc = "control" /\ Len(collected_weather) = 3 /\ Cardinality(RecordedAbove) = 2) =>
        /\ Get(Proposal, "is_final_action", FALSE) = TRUE
        /\ Proposal.proposed_action # None
        /\ Proposal.proposed_action[1].tool_name = "send_email"
        /\ Get(Proposal, "destination", "") \in CoolestRecordedAbove
        /\ Kwargs(Proposal.proposed_action[1].parameters)["subject"]
             = "Travel Plan Confirmed: " \o Proposal.destination

\* San Francisco 60, Miami 75, Atlanta 50 with the base temperature 55: the
\* proposal is a final send_email for San Francisco
C27_Witness ==
    /\ pc = "control"
    /\ Len(collected_weather) = 3
    /\ \E i, j, k \in 1..3 :
         /\ collected_weather[i].city = "San Francisco"
         /\ collected_weather[i].temperature_f = Some(60)
         /\ collected_weather[j].city = "Miami"
         /\ collected_weather[j].temperature_f = Some(75)
         /\ collected_weather[k].city = "Atlanta"
         /\ collected_weather[k].temperature_f = Some(50)
    /\ Proposal.is_final_action = TRUE
    /\ Proposal.proposed_action[1].tool_name = "send_email"
    /\ Proposal.destination = "San Francisco"

\* C28: when the mock engine answers with the weather of the three cities
\* recorded and all three temperatures strictly above the base temperature, the
\* proposal is final, its tool is generate_image, and the description it passes
\* is that of the coolest of the three cities, which is its destination; with
\* San Francisco at 60, Miami at 75 and Atlanta at 65 that city is San Francisco.
C28_AllAboveGeneratesImage ==
    (pc = "control" /\ Len(collected_weather) = 3 /\ Cardinality(RecordedAbove) = 3) =>
        /\ Get(Proposal, "is_final_action", FALSE) = TRUE
        /\ Proposal.proposed_action # None
        /\ Proposal.proposed_action[1].tool_name = "generate_image"
        /\ Get(Proposal, "destination", "") \in CoolestRecordedAbove
        /\ \E i \in RecordedAbove :
             /\ collected_weather[i].city = Proposal.destination
             /\ Kwargs(Proposal.proposed_action[1].parameters)["description"]
                  = collected_weather[i].city \o " weather: "
                      \o collected_weather[i].condition \o ", "
                      \o Decimal(collected_weather[i].temperature_f[1]) \o DegreeSign \o "F"
        /\ Recorded("San Francisco", 60) /\ Recorded("Miami", 75) /\ Recorded("Atlanta", 65)
             => /\ Proposal.destination = "San Francisco"
                /\ Kwargs(Proposal.proposed_action[1].parameters)["description"]
                     = "San Francisco weather: Partly Cloudy, 60" \o DegreeSign \o "F"

\* San Francisco 70, Miami 75, Atlanta 65 with the base temperature 55: the
\* coolest city is the last one recorded, and the proposal is a final
\* generate_image of Atlanta's weather
C28_Witness ==
    /\ pc = "control"
    /\ Len(collected_weather) = 3
    /\ collected_weather[1].city = "San Francisco"
    /\ collected_weather[3].city = "Atlanta"
    /\ Recorded("San Francisco", 70) /\ Recorded("Miami", 75) /\ Recorded("Atlanta", 65)
    /\ Proposal.is_final_action = TRUE
    /\ Proposal.proposed_action[1].tool_name = "generate_image"
    /\ Proposal.destination = "Atlanta"
    /\ Kwargs(Proposal.proposed_action[1].parameters)["description"]
         = "Atlanta weather: Clear, 65" \o DegreeSign \o "F"

\* the Action records of the log
ActionRecords == {j \in Indices : Stage(j) = ModuleAction}

\* C29: store_evidence is never called for an identifier the cache already
\* holds: the call adds one new entry and leaves the others as they are, an
\* entry never changes afterwards, the Action records carry pairwise distinct
\* identifiers, each entry holds the result of the one Action record with its
\* identifier, and there are as many entries as Action records.
C29_EvidenceWriteOnce ==
    /\ [][evidence_cache' # evidence_cache =>
            /\ pc = "action"
            /\ Len(dispatches') = Len(dispatches) + 1
            /\ LET d == dispatches'[Len(dispatches')]
                   id == EvidenceId(d.tool_name, d.parameters)
               IN  /\ d.outcome = "returned"
                   /\ id \notin DOMAIN evidence_cache
                   /\ DOMAIN evidence_cache' = DOMAIN evidence_cache \cup {id}
                   /\ evidence_cache'[id] = context'.last_action_result]_vars
    /\ [][\A id \in DOMAIN evidence_cache :
            id \in DOMAIN evidence_cache' /\ evidence_cache'[id] = evidence_cache[id]]_vars
    /\ [](/\ \A i, j \in ActionRecords :
                history[i].output_state.val.evidence_id
                  = history[j].output_state.val.evidence_id => i = j
          /\ DOMAIN evidence_cache
               = {history[j].output_state.val.evidence_id : j \in ActionRecords}
          /\ \A j \in ActionRecords :
                evidence_cache[history[j].output_state.val.evidence_id]
                  = history[j].output_state.val.result
          /\ Cardinality(DOMAIN evidence_cache) = Cardinality(ActionRecords))

\* the weather query was dispatched and stored, its repetition was rejected as
\* redundant, and a second tool was then dispatched and stored: two entries,
\* two Action records
C29_Witness ==
    /\ Cardinality(DOMAIN evidence_cache) = 2
    /\ Cardinality(ActionRecords) = 2
    /\ EvidenceId(WeatherQuery.tool_name, WeatherQuery.parameters) \in DOMAIN evidence_cache
    /\ \E i \in Indices :
         /\ Rejected(i)
         /\ history[i].output_state.val.message = RedundantMessage
         /\ \E j, k \in ActionRecords : j < i /\ i < k

\* a final proposal was approved in some iteration of the run
SomeFinalApproved == \E i \in Indices : Approved(i) /\ IsFinal(Validated(i))

\* C30: the engine is invoked at most max_loops times, and run() returns from
\* the exhausted while condition only if no final proposal was approved in
\* any of those iterations; a final proposal approved in the iteration
\* numbered max_loops goes to its Action stage, which can run, and the run
\* ends from that stage, the action's result in the context, not from the
\* while condition.
C30_ExhaustedOnlyWithoutFinal ==
    /\ [](Len(responses) <= max_loops /\ loop_counter <= max_loops)
    /\ [][pc = "loop" /\ pc' = "done" => ~SomeFinalApproved]_vars
    /\ [](pc = "action" /\ FinalApproved /\ loop_counter = max_loops =>
            OutcomesFor(responses[Len(responses)], SampledDraws) # {})
    /\ [][pc = "control" /\ loop_counter = max_loops /\ FinalApproved' =>
            pc' = "action"]_vars
    /\ [][pc = "action" /\ FinalApproved /\ loop_counter = max_loops =>
            /\ pc' = "done"
            /\ "last_action_result" \in DOMAIN context'
            /\ report' # None
            /\ report'[1].summary.total_loops = max_loops]_vars

\* after two iterations that did not end the run, the third and last allowed
\* proposal was final and approved, its tool was dispatched and the run ended
C30_Witness ==
    /\ pc = "done"
    /\ max_loops = 3 /\ loop_counter = max_loops
    /\ FinalApproved
    /\ Len(dispatches) > 0
    /\ dispatches[Len(dispatches)].loop = max_loops
    /\ dispatches[Len(dispatches)].outcome = "returned"
    /\ report # None

\* the engine has recorded the three cities and none is above the base
\* temperature
NoneAbove == Len(collected_weather) = 3 /\ RecordedAbove = {}

\* _generate_decision's proposal when no city is above the base temperature
CancelCall ==
    [tool_name |-> "cancel_trip",
     parameters |->
        << <<"reason", "All destinations below comfortable temperature threshold">> >>]

CancelDispatches ==
    {k \in 1..Len(dispatches) : dispatches[k].tool_name = "cancel_trip"}

\* C31: with the mock engine, a weather tool that returns a temperature for
\* each city, a ceiling of at least 4 and the three temperatures at or below
\* the base temperature: the fourth proposal and every later one is the same
\* non-final cancel_trip call; cancel_trip is dispatched once, in the fourth
\* iteration, and never again; Control rejects every later proposal as a
\* redundant call; no final proposal is approved and control() never raises;
\* a run that has not ended can take a step and every step lowers the bound
\* StepsLeft >= 0, so the run ends; it ends at the ceiling, the report counting
\* max_loops loops and max_loops - 4 policy violations.
C31_ColdRunExhausts ==
    /\ [](NoneAbove /\ max_loops >= 4 =>
            /\ pc # "crashed"
            /\ ~SomeFinalApproved
            /\ \A k \in 4..Len(responses) :
                  /\ Get(responses[k], "proposed_action", None) = Some(CancelCall)
                  /\ ~IsFinal(responses[k])
            /\ Cardinality(CancelDispatches) <= 1
            /\ \A k \in CancelDispatches :
                  /\ dispatches[k].loop = 4
                  /\ dispatches[k].outcome = "returned"
                  /\ dispatches[k].parameters = CancelCall.parameters
            /\ ~(loop_counter = 4 /\ pc \in {"control", "action"}) =>
                  Cardinality(CancelDispatches) = 1
            /\ \A i \in Indices :
                  Stage(i) = ModuleControl =>
                     IF history[i].loop_num > 4
                     THEN /\ Rejected(i)
                          /\ history[i].output_state.val.message = RedundantMessage
                     ELSE Approved(i)
            /\ pc = "done" =>
                  /\ loop_counter = max_loops
                  /\ Len(responses) = max_loops
                  /\ report # None
                  /\ report[1].summary.total_loops = max_loops
                  /\ report[1].summary.policy_violations = max_loops - 4)
    /\ [](NoneAbove /\ max_loops >= 4 /\ pc # "done" =>
            /\ pc \in {"loop", "control", "action"}
            /\ pc = "action" => AnyWeatherOutcomesFor(responses[Len(responses)]) # {})
    /\ [][NoneAbove /\ max_loops >= 4 => StepsLeft' < StepsLeft /\ StepsLeft' >= 0]_vars

\* San Francisco, Miami and Atlanta at 50, 55 and 50 with a ceiling of 6: the
\* run has ended with one cancel_trip dispatched, two redundant proposals
\* rejected and a report of 6 loops and 2 policy violations
C31_Witness ==
    /\ pc = "done"
    /\ max_loops = 6
    /\ NoneAbove
    /\ \E i \in 1..3 : collected_weather[i].city = "Miami"
                          /\ collected_weather[i].temperature_f = Some(55)
    /\ Cardinality(CancelDispatches) = 1
    /\ Cardinality({i \in Indices : Rejected(i)
                       /\ history[i].output_state.val.message = RedundantMessage}) = 2
    /\ report # None
    /\ report[1].summary.total_loops = 6
    /\ report[1].summary.policy_violations = 2
=============================================================================
